---- MODULE Spec2Model ----
(***************************************************************************)
(* A model of the cash-out HTML to Markdown converter: the conversion      *)
(* engine (HTMLToMarkdownConverter), the element converters, the Markdown  *)
(* builder, the input sanitizer, the entry points and the browser worker   *)
(* pool.                                                                   *)
(*                                                                         *)
(* Strings are sequences of atoms.  An atom is one character of markup or  *)
(* whitespace (a space, a newline, a bracket, a star, ...) or a run of     *)
(* characters that the code never looks inside (a word, a URL scheme, the  *)
(* rest of a URL).  Concatenation of strings is \o.                        *)
(***************************************************************************)
EXTENDS Integers, Sequences, FiniteSets, TLC

(***************************************************************************)
(* Strings                                                                 *)
(***************************************************************************)

\* JavaScript whitespace, as matched by \s and removed by trim().  NBSP is
\* the no-break space U+00A0 and BOM the zero-width no-break space U+FEFF.
Whitespace == {" ", "\n", "\t", "\r", "NBSP", "BOM"}

RECURSIVE TrimStart(_)
TrimStart(s) ==
  IF s = <<>> THEN <<>>
  ELSE IF Head(s) \in Whitespace THEN TrimStart(Tail(s)) ELSE s

RECURSIVE TrimEnd(_)
TrimEnd(s) ==
  IF s = <<>> THEN <<>>
  ELSE IF s[Len(s)] \in Whitespace THEN TrimEnd(SubSeq(s, 1, Len(s) - 1)) ELSE s

\* String.prototype.trim
Trim(s) == TrimEnd(TrimStart(s))

\* ' '.repeat(n)
RECURSIVE Spaces(_)
Spaces(n) == IF n <= 0 THEN <<>> ELSE <<" ">> \o Spaces(n - 1)

\* F applied to the value of v: v is evaluated before F is entered.
Then(v, F(_)) == CHOOSE r \in {F(x) : x \in {v}} : TRUE

\* Array.prototype.join('') over a list of strings, by halves
RECURSIVE Join(_)
Join(chunks) ==
  IF chunks = <<>> THEN <<>>
  ELSE IF Len(chunks) = 1 THEN chunks[1]
  ELSE Then(Join(SubSeq(chunks, 1, Len(chunks) \div 2)),
            LAMBDA left : left \o Join(SubSeq(chunks, Len(chunks) \div 2 + 1, Len(chunks))))

\* The characters of s at the positions where Keep holds, in order
KeepWhere(s, Keep(_)) ==
  LET marked == [i \in 1..Len(s) |-> <<s[i], Keep(i)>>]
      kept == SelectSeq(marked, LAMBDA m : m[2])
  IN [j \in 1..Len(kept) |-> kept[j][1]]

\* s contains t as a contiguous substring
Contains(s, t) ==
  \E i \in 1..(Len(s) - Len(t) + 1) : SubSeq(s, i, i + Len(t) - 1) = t

\* the number of places where t occurs in s
Occurrences(s, t) ==
  Cardinality({i \in 1..(Len(s) - Len(t) + 1) : SubSeq(s, i, i + Len(t) - 1) = t})

\* The number of characters of an atom: the atoms named here stand for runs
\* of the given length, every other atom is short.
CharLen(a) ==
  IF a = "word40" THEN 40
  ELSE IF a \in Whitespace \cup {"[", "]", "(", ")", "*", "_", "BACKTICK", "|", "-", "#", ">", ":", "."} THEN 1
  ELSE 4

RECURSIVE StrLen(_)
StrLen(s) == IF s = <<>> THEN 0 ELSE CharLen(Head(s)) + StrLen(Tail(s))

\* text.split(/\s+/): the maximal runs of non-whitespace atoms; a leading or
\* trailing run of whitespace yields an empty first or last piece.
RECURSIVE SplitWs(_, _, _)
SplitWs(s, cur, inWs) ==
  IF s = <<>> THEN <<cur>>
  ELSE IF Head(s) \in Whitespace
       THEN IF inWs THEN SplitWs(Tail(s), cur, TRUE)
            ELSE <<cur>> \o SplitWs(Tail(s), <<>>, TRUE)
       ELSE SplitWs(Tail(s), Append(cur, Head(s)), FALSE)

SplitWhitespace(s) == SplitWs(s, <<>>, FALSE)

\* text.split('\n'): the pieces between the newlines
SplitLines(s) ==
  LET starts == KeepWhere([i \in 1..(Len(s) + 1) |-> i], LAMBDA i : i = 1 \/ s[i - 1] = "\n")
  IN [k \in 1..Len(starts) |->
        SubSeq(s, starts[k], IF k < Len(starts) THEN starts[k + 1] - 2 ELSE Len(s))]

(***************************************************************************)
(* DOM nodes, as the parser hands them to the converter                    *)
(***************************************************************************)

ELEMENT_NODE == 1
TEXT_NODE == 3
COMMENT_NODE == 8

\* The attributes the converter reads or removes.  An attribute an element
\* does not carry has the empty string as its value.
AttrNames == {"href", "src", "alt", "title", "class", "onclick"}

NoAttrs == [n \in AttrNames |-> <<>>]

TextNode(t) ==
  [nodeType |-> TEXT_NODE, tagName |-> "#text", attrs |-> NoAttrs, data |-> t, childNodes |-> <<>>]

CommentNode(t) ==
  [nodeType |-> COMMENT_NODE, tagName |-> "#comment", attrs |-> NoAttrs, data |-> t, childNodes |-> <<>>]

ElementWith(tag, as, kids) ==
  [nodeType |-> ELEMENT_NODE, tagName |-> tag, attrs |-> as, data |-> <<>>, childNodes |-> kids]

Element(tag, kids) == ElementWith(tag, NoAttrs, kids)

\* <a href=...>
Anchor(href, kids) == ElementWith("a", [NoAttrs EXCEPT !["href"] = href], kids)

\* element.getAttribute(name); a missing attribute and an empty one are both
\* falsy in every test the code makes, and both are the empty string here.
getAttribute(el, name) == el.attrs[name]

setAttribute(el, name, value) == [el EXCEPT !.attrs[name] = value]

removeAttribute(el, name) == [el EXCEPT !.attrs[name] = <<>>]

\* element.children: the element children, in order
ElementsOf(kids) == SelectSeq(kids, LAMBDA k : k.nodeType = ELEMENT_NODE)

children(el) == ElementsOf(el.childNodes)

\* node.textContent: the text of all descendant text nodes, in document order
RECURSIVE textContent(_)
RECURSIVE textContentOfAll(_)
textContent(node) ==
  IF node.nodeType = TEXT_NODE THEN node.data
  ELSE IF node.nodeType = ELEMENT_NODE THEN textContentOfAll(node.childNodes)
  ELSE <<>>
textContentOfAll(kids) ==
  IF kids = <<>> THEN <<>> ELSE textContent(Head(kids)) \o textContentOfAll(Tail(kids))

\* element.querySelectorAll(tags): the descendant elements (the element
\* itself excluded) with a tag in tags, in document order
RECURSIVE DescendantsIn(_, _)
DescendantsIn(kids, tags) ==
  IF kids = <<>> THEN <<>>
  ELSE LET k == Head(kids) IN
       (IF k.nodeType = ELEMENT_NODE
        THEN (IF k.tagName \in tags THEN <<k>> ELSE <<>>) \o DescendantsIn(k.childNodes, tags)
        ELSE <<>>)
       \o DescendantsIn(Tail(kids), tags)

querySelectorAll(el, tags) == DescendantsIn(el.childNodes, tags)

\* One level more of a tree laid out in document order: every node not yet
\* opened is followed by its child nodes
OpenNodes(entries) ==
  Join([i \in 1..Len(entries) |->
          IF entries[i].open
          THEN <<[entries[i] EXCEPT !.open = FALSE]>>
               \o [j \in 1..Len(entries[i].node.childNodes) |->
                     [node |-> entries[i].node.childNodes[j], open |-> TRUE,
                      depth |-> entries[i].depth + 1]]
          ELSE <<entries[i]>>])

\* k levels more, by halves
RECURSIVE OpenLevels(_, _)
OpenLevels(entries, k) ==
  IF k = 0 \/ \A i \in 1..Len(entries) : ~entries[i].open THEN entries
  ELSE IF k = 1 THEN OpenNodes(entries)
  ELSE Then(OpenLevels(entries, k - (k \div 2)), LAMBDA mid : OpenLevels(mid, k \div 2))

\* No tree of the model is deeper than this
MaxTreeDepth == 128

\* The nodes of the tree of root in document order, root first, each with
\* its depth below root
Preorder(root) ==
  OpenLevels(<<[node |-> root, open |-> TRUE, depth |-> 0]>>, MaxTreeDepth)

\* element.querySelectorAll(tags) is not empty
HasDescendant(element, tags) ==
  LET entries == Preorder(element) IN
  \E i \in 2..Len(entries) :
    entries[i].node.nodeType = ELEMENT_NODE /\ entries[i].node.tagName \in tags

(***************************************************************************)
(* Security sanitizer                                                      *)
(***************************************************************************)

DANGEROUS_PROTOCOLS ==
  {"javascript:", "data:", "vbscript:", "file:", "about:", "chrome:", "chrome-extension:"}

\* String.prototype.toLowerCase on one atom: the atoms that carry upper case
\* letters are the ones listed.
LowerAtom(a) ==
  IF a = "JavaScript:" THEN "javascript:"
  ELSE IF a = "DATA:" THEN "data:"
  ELSE IF a = "VBScript:" THEN "vbscript:"
  ELSE a

\* lowerUrl.startsWith(protocol) for some dangerous protocol: a URL's scheme,
\* colon included, is its first atom.
StartsWithDangerousProtocol(url) ==
  url # <<>> /\ LowerAtom(Head(url)) \in DANGEROUS_PROTOCOLS

\* url.replace(/\s/g, '%20')
RECURSIVE EncodeWhitespace(_)
EncodeWhitespace(url) ==
  IF url = <<>> THEN <<>>
  ELSE <<IF Head(url) \in Whitespace THEN "%20" ELSE Head(url)>> \o EncodeWhitespace(Tail(url))

sanitizeUrl(url) ==
  IF url = <<>> THEN <<>>
  ELSE LET t == Trim(url) IN
       IF StartsWithDangerousProtocol(t) THEN <<>>
       ELSE EncodeWhitespace(IF t # <<>> /\ Head(t) = "//" THEN <<"https:">> \o t ELSE t)

\* The byte length of the fixed limit of validateInput: 10 * 1024 * 1024.
VALIDATE_MAX_BYTES == 10485760

MAX_NESTING_DEPTH == 100

\* checkNestingDepth(element, depth): TRUE when it throws.  It visits the
\* element and, through children, the elements below it, each at the depth
\* of its parent plus one, and throws at the first whose depth is above the
\* limit: it throws when there is such an element.
NestingTooDeep(element, depth) ==
  LET entries == Preorder(element) IN
  \E i \in 1..Len(entries) :
    /\ entries[i].node.nodeType = ELEMENT_NODE
    /\ depth + entries[i].depth > MAX_NESTING_DEPTH

\* sanitizeAttributes(element): attributes whose name starts with "on" are
\* removed, href and src are rewritten through sanitizeUrl.
sanitizeAttributes(element) ==
  [element EXCEPT !.attrs = [n \in AttrNames |->
      IF n = "onclick" THEN <<>>
      ELSE IF n \in {"href", "src"} THEN sanitizeUrl(element.attrs[n])
      ELSE element.attrs[n]]]

(***************************************************************************)
(* MarkdownBuilder: a builder is the record of its three fields            *)
(***************************************************************************)

NewBuilder == [chunks |-> <<>>, currentIndent |-> 0, lastWasBlank |-> TRUE]

\* add(text)
BAdd(b, text) ==
  IF text # <<>>
  THEN [b EXCEPT !.chunks = Append(@, text), !.lastWasBlank = FALSE]
  ELSE b

\* addLine(text = '')
BAddLine(b, text) ==
  IF text # <<>>
  THEN [b EXCEPT !.chunks = @ \o <<Spaces(b.currentIndent) \o text, <<"\n">>>>,
                 !.lastWasBlank = FALSE]
  ELSE [b EXCEPT !.chunks = Append(@, <<"\n">>)]

\* A newline pushed whatever was emitted last
BAddBlankLineAlways(b) ==
  [b EXCEPT !.chunks = Append(@, <<"\n">>), !.lastWasBlank = TRUE]

\* addBlankLine()
BAddBlankLine(b) ==
  IF ~b.lastWasBlank
  THEN [b EXCEPT !.chunks = Append(@, <<"\n">>), !.lastWasBlank = TRUE]
  ELSE b

\* indent(spaces)
BIndent(b, spaces) == [b EXCEPT !.currentIndent = @ + spaces]

\* outdent(spaces)
BOutdent(b, spaces) ==
  [b EXCEPT !.currentIndent = IF @ - spaces > 0 THEN @ - spaces ELSE 0]

\* '#'.repeat(n)
RECURSIVE Hashes(_)
Hashes(n) == IF n <= 0 THEN <<>> ELSE <<"#">> \o Hashes(n - 1)

\* addHeading(level, text)
BAddHeading(b, level, text) ==
  LET n == IF level < 1 THEN 1 ELSE IF level > 6 THEN 6 ELSE level IN
  BAddBlankLine(BAddLine(BAddBlankLine(b), Hashes(n) \o <<" ">> \o text))

\* The wrapping loop of addParagraph: the lines made of the words, a line
\* closed when the next word would take it past 80 characters.
RECURSIVE WrapWords(_, _)
WrapWords(words, currentLine) ==
  IF words = <<>> THEN (IF currentLine # <<>> THEN <<currentLine>> ELSE <<>>)
  ELSE LET word == Head(words) IN
       IF StrLen(currentLine) + StrLen(word) + 1 > 80
       THEN <<currentLine>> \o WrapWords(Tail(words), word)
       ELSE WrapWords(Tail(words),
                      IF currentLine # <<>> THEN currentLine \o <<" ">> \o word ELSE word)

RECURSIVE BAddLines(_, _)
BAddLines(b, lines) ==
  IF lines = <<>> THEN b ELSE BAddLines(BAddLine(b, Head(lines)), Tail(lines))

\* addParagraph(text)
BAddParagraph(b, text) ==
  IF Trim(text) = <<>> THEN b
  ELSE BAddBlankLine(BAddLines(b, WrapWords(SplitWhitespace(text), <<>>)))

\* addCodeBlock(code, language)
BAddCodeBlock(b, code, language) ==
  LET fence == <<"BACKTICK", "BACKTICK", "BACKTICK">> IN
  BAddBlankLine(BAddLine(BAddLine(BAdd(BAddLine(BAddBlankLine(b), fence \o language), code), <<>>), fence))

RECURSIVE BAddQuoted(_, _)
BAddQuoted(b, lines) ==
  IF lines = <<>> THEN b
  ELSE BAddQuoted(BAddLine(b, <<">", " ">> \o Head(lines)), Tail(lines))

\* addBlockquote(text)
BAddBlockquote(b, text) == BAddBlankLine(BAddQuoted(b, SplitLines(text)))

\* The decimal digits of a list number, as one atom.
NumberAtom(n) == ToString(n)

\* addListItem(text, ordered, number)
BAddListItem(b, text, ordered, number) ==
  LET marker == IF ordered THEN <<NumberAtom(number), ".">> ELSE <<"-">> IN
  [b EXCEPT !.chunks = @ \o <<Spaces(b.currentIndent) \o marker \o <<" ">> \o text, <<"\n">>>>,
            !.lastWasBlank = FALSE]

\* A call of a method of the builder, as a value: a loop of the code that
\* calls the builder once or more in each round is the list of its calls.
AddCall(text) == [method |-> "add", text |-> text, ordered |-> FALSE, number |-> 0]

AddLineCall(text) == [method |-> "addLine", text |-> text, ordered |-> FALSE, number |-> 0]

AddBlankLineCall == [method |-> "addBlankLine", text |-> <<>>, ordered |-> FALSE, number |-> 0]

IndentCall(spaces) == [method |-> "indent", text |-> <<>>, ordered |-> FALSE, number |-> spaces]

OutdentCall(spaces) == [method |-> "outdent", text |-> <<>>, ordered |-> FALSE, number |-> spaces]

AddListItemCall(text, ordered, number) ==
  [method |-> "addListItem", text |-> text, ordered |-> ordered, number |-> number]

\* The builder after one call
BCall(b, call) ==
  CASE call.method = "add" -> BAdd(b, call.text)
    [] call.method = "addLine" -> BAddLine(b, call.text)
    [] call.method = "addBlankLine" -> BAddBlankLine(b)
    [] call.method = "indent" -> BIndent(b, call.number)
    [] call.method = "outdent" -> BOutdent(b, call.number)
    [] OTHER -> BAddListItem(b, call.text, call.ordered, call.number)

\* The builder after the calls in order, by halves
RECURSIVE BCalls(_, _)
BCalls(b, calls) ==
  IF calls = <<>> THEN b
  ELSE IF Len(calls) = 1 THEN BCall(b, calls[1])
  ELSE Then(BCalls(b, SubSeq(calls, 1, Len(calls) \div 2)),
            LAMBDA mid : BCalls(mid, SubSeq(calls, Len(calls) \div 2 + 1, Len(calls))))

\* result.replace(/\r\n/g, '\n')
CrLfToLf(s) ==
  KeepWhere(s, LAMBDA i : ~(s[i] = "\r" /\ i < Len(s) /\ s[i + 1] = "\n"))

\* result.replace(/[ \t]+$/gm, ''): a run of spaces and tabs that reaches the
\* end of its line (a line terminator or the end of the string) is removed.
StripTrailing(s) ==
  KeepWhere(s, LAMBDA i :
    ~(\E j \in i..Len(s) :
        /\ \A k \in i..j : s[k] \in {" ", "\t"}
        /\ (j = Len(s) \/ s[j + 1] \in {"\n", "\r"})))

\* result.replace(/\n{3,}/g, '\n\n'): of a run of newlines two are kept
CollapseNewlines(s) ==
  KeepWhere(s, LAMBDA i : ~(i >= 3 /\ s[i] = "\n" /\ s[i - 1] = "\n" /\ s[i - 2] = "\n"))

\* build(normalize = true)
BBuild(b) ==
  Then(Join(b.chunks), LAMBDA result :
  Then(CrLfToLf(result), LAMBDA unixLines :
  Then(StripTrailing(unixLines), LAMBDA stripped :
  Then(CollapseNewlines(stripped), Trim))))

(***************************************************************************)
(* Element converters: each takes the builder and returns the builder      *)
(***************************************************************************)

\* convertText(node, builder)
convertText(node, b) == BAdd(b, node.data)

\* getTextContent(element) of the heading converter
RECURSIVE getTextContent(_)
RECURSIVE getTextContentOfAll(_)
getTextContent(element) == getTextContentOfAll(element.childNodes)
getTextContentOfAll(kids) ==
  IF kids = <<>> THEN <<>>
  ELSE LET node == Head(kids) IN
       (IF node.nodeType = TEXT_NODE THEN node.data
        ELSE IF node.nodeType = ELEMENT_NODE THEN getTextContent(node)
        ELSE <<>>)
       \o getTextContentOfAll(Tail(kids))

\* parseInt(tagName.charAt(1), 10)
HeadingLevel(tagName) ==
  CASE tagName = "h1" -> 1 [] tagName = "h2" -> 2 [] tagName = "h3" -> 3
    [] tagName = "h4" -> 4 [] tagName = "h5" -> 5 [] OTHER -> 6

\* convertHeading(element, builder)
convertHeading(element, b) ==
  LET text == Trim(getTextContent(element)) IN
  IF text # <<>> THEN BAddHeading(b, HeadingLevel(element.tagName), text) ELSE b

\* text.replace(/([[\]])/g, '\\$1')
RECURSIVE escapeMarkdownInLink(_)
escapeMarkdownInLink(text) ==
  IF text = <<>> THEN <<>>
  ELSE (IF Head(text) \in {"[", "]"} THEN <<"\\", Head(text)>> ELSE <<Head(text)>>)
       \o escapeMarkdownInLink(Tail(text))

\* The Markdown of a link: [text](url)
LinkMarkdown(text, url) == <<"[">> \o text \o <<"]", "(">> \o url \o <<")">>

\* convertLink(element, builder)
convertLink(element, b) ==
  LET href == getAttribute(element, "href")
      text == Trim(textContent(element))
      safeUrl == sanitizeUrl(href)
  IN IF text = <<>> THEN b
     ELSE IF href = <<>> THEN BAdd(b, text)
     ELSE IF safeUrl = <<>> THEN BAdd(b, text)
     ELSE BAdd(b, LinkMarkdown(escapeMarkdownInLink(text), safeUrl))

\* text.replace(/"/g, '\\"')
RECURSIVE escapeTitle(_)
escapeTitle(text) ==
  IF text = <<>> THEN <<>>
  ELSE (IF Head(text) = "\"" THEN <<"\\", "\"">> ELSE <<Head(text)>>) \o escapeTitle(Tail(text))

\* convertImage(element, builder)
convertImage(element, b) ==
  LET src == getAttribute(element, "src")
      alt == getAttribute(element, "alt")
      title == getAttribute(element, "title")
      safeSrc == sanitizeUrl(src)
  IN IF src = <<>> THEN b
     ELSE IF safeSrc = <<>>
          THEN (IF alt # <<>> THEN BAdd(b, <<"[", "Image", ":", " ">> \o alt \o <<"]">>) ELSE b)
     ELSE BAdd(b, <<"!", "[">> \o escapeMarkdownInLink(alt) \o <<"]", "(">> \o safeSrc
                  \o (IF title # <<>> THEN <<" ", "\"">> \o escapeTitle(title) \o <<"\"">> ELSE <<>>)
                  \o <<")">>)

\* The number of backticks of text, given the number before it
BacktickCount(text, run) ==
  run + Cardinality({i \in 1..Len(text) : text[i] = "BACKTICK"})

\* The length of the longest run of backticks in text, given the length of
\* the run that ends just before text.
RECURSIVE LongestBacktickRun(_, _)
LongestBacktickRun(text, run) ==
  IF text = <<>> THEN run
  ELSE IF Head(text) = "BACKTICK"
       THEN LongestBacktickRun(Tail(text), run + 1)
       ELSE LET rest == LongestBacktickRun(Tail(text), 0) IN IF run > rest THEN run ELSE rest

RECURSIVE Backticks(_)
Backticks(n) == IF n <= 0 THEN <<>> ELSE <<"BACKTICK">> \o Backticks(n - 1)

\* escapeBackticks(text)
escapeBackticks(text) ==
  IF \E i \in 1..Len(text) : text[i] = "BACKTICK"
  THEN LET fence == Backticks(LongestBacktickRun(text, 0) + 1)
           startSpace == IF Head(text) = "BACKTICK" THEN <<" ", " ">> ELSE <<" ">>
           endSpace == IF text[Len(text)] = "BACKTICK" THEN <<" ", " ">> ELSE <<" ">>
       IN fence \o startSpace \o text \o endSpace \o fence
  ELSE <<"BACKTICK">> \o text \o <<"BACKTICK">>

\* normalizeLanguage(lang); the language atoms are lower case already
normalizeLanguage(lang) ==
  CASE lang = "js" -> "javascript" [] lang = "ts" -> "typescript" [] lang = "py" -> "python"
    [] lang = "rb" -> "ruby" [] lang = "rs" -> "rust" [] lang = "cs" -> "csharp"
    [] lang = "yml" -> "yaml" [] lang = "md" -> "markdown" [] lang = "sh" -> "bash"
    [] OTHER -> lang

\* The class prefixes of detectLanguage's patterns, in the order tried.
LanguagePrefixes == <<"language-", "lang-", "highlight-", "brush:">>

\* The language names looked for as whole class words, in the order tried
\* (the ones the class attributes of the inputs can carry).
LanguageNames == <<"javascript", "typescript", "python", "bash", "js", "ts", "py", "sh">>

\* The first match of one pattern prefix(\w+) in the class string: the atom
\* captured after the first occurrence of the prefix atom; <<>> when the
\* pattern does not match.
PrefixMatch(className, prefix) ==
  LET hits == {i \in 1..(Len(className) - 1) :
                 className[i] = prefix /\ className[i + 1] \notin Whitespace}
  IN IF hits = {} THEN <<>>
     ELSE <<className[(CHOOSE i \in hits : \A j \in hits : i <= j) + 1]>>

RECURSIVE FirstPrefixMatch(_, _)
FirstPrefixMatch(className, prefixes) ==
  IF prefixes = <<>> THEN <<>>
  ELSE LET m == PrefixMatch(className, Head(prefixes)) IN
       IF m # <<>> THEN m ELSE FirstPrefixMatch(className, Tail(prefixes))

RECURSIVE FirstLanguageWord(_, _)
FirstLanguageWord(className, names) ==
  IF names = <<>> THEN <<>>
  ELSE IF \E i \in 1..Len(className) : className[i] = Head(names)
       THEN <<Head(names)>>
       ELSE FirstLanguageWord(className, Tail(names))

\* detectLanguage(element): the language as a string, <<>> for undefined.
\* A class string is atoms: pattern prefixes, words, and separators.
detectLanguage(element) ==
  LET className == getAttribute(element, "class")
      byPattern == FirstPrefixMatch(className, LanguagePrefixes)
      byWord == FirstLanguageWord(className, LanguageNames)
  IN IF className = <<>> THEN <<>>
     ELSE IF byPattern # <<>> THEN <<normalizeLanguage(LowerAtom(byPattern[1]))>>
     ELSE IF byWord # <<>> THEN <<normalizeLanguage(byWord[1])>>
     ELSE <<>>

\* convertCodeBlock(element, builder)
convertCodeBlock(element, b) ==
  LET codes == querySelectorAll(element, {"code"})
      sourceElement == IF codes # <<>> THEN Head(codes) ELSE element
      code == textContent(sourceElement)
  IN IF Trim(code) = <<>> THEN b
     ELSE BAddCodeBlock(b, code, detectLanguage(sourceElement))

\* convertCode(element, builder)
convertCode(element, b) ==
  IF element.tagName = "code"
  THEN LET text == textContent(element) IN
       IF text # <<>> THEN BAdd(b, escapeBackticks(text)) ELSE b
  ELSE IF element.tagName = "pre" THEN convertCodeBlock(element, b)
  ELSE b

\* lines.join('\n')
JoinLines(lines) ==
  Join([k \in 1..Len(lines) |-> IF k < Len(lines) THEN lines[k] \o <<"\n">> ELSE lines[k]])

\* The two closure variables of extractBlockquoteText, and its
\* "if (currentLine.trim()) lines.push(currentLine.trim())"
BqPush(st) ==
  IF Trim(st.currentLine) # <<>>
  THEN [st EXCEPT !.lines = Append(@, Trim(st.currentLine))]
  ELSE st

BqAppend(st, text) == [st EXCEPT !.currentLine = @ \o text]

BqClear(st) == [st EXCEPT !.currentLine = <<>>]

\* processNode and processChildren of extractBlockquoteText
RECURSIVE BqProcessNode(_, _)
RECURSIVE BqProcessChildren(_, _)
BqProcessNode(node, st) ==
  IF node.nodeType = TEXT_NODE THEN BqAppend(st, node.data)
  ELSE IF node.nodeType # ELEMENT_NODE THEN st
  ELSE CASE node.tagName = "p" ->
              BqClear(BqPush(BqProcessChildren(node.childNodes, BqClear(BqPush(st)))))
         [] node.tagName = "br" -> BqClear(BqPush(st))
         [] node.tagName \in {"strong", "b"} ->
              BqAppend(BqProcessChildren(node.childNodes, BqAppend(st, <<"*", "*">>)), <<"*", "*">>)
         [] node.tagName \in {"em", "i"} ->
              BqAppend(BqProcessChildren(node.childNodes, BqAppend(st, <<"_">>)), <<"_">>)
         [] node.tagName = "code" ->
              BqAppend(st, <<"BACKTICK">> \o textContent(node) \o <<"BACKTICK">>)
         [] OTHER -> BqProcessChildren(node.childNodes, st)
BqProcessChildren(kids, st) ==
  IF kids = <<>> THEN st
  ELSE BqProcessChildren(Tail(kids), BqProcessNode(Head(kids), st))

\* extractBlockquoteText(element)
extractBlockquoteText(element) ==
  JoinLines(BqPush(BqProcessChildren(element.childNodes,
                                     [lines |-> <<>>, currentLine |-> <<>>])).lines)

\* convertBlockquote(element, builder)
convertBlockquote(element, b) ==
  LET text == Trim(extractBlockquoteText(element)) IN
  IF text # <<>> THEN BAddBlockquote(b, text) ELSE b

\* getListItemText(element)
RECURSIVE getListItemText(_)
RECURSIVE getListItemTextOfAll(_)
getListItemText(element) == getListItemTextOfAll(element.childNodes)
getListItemTextOfAll(kids) ==
  IF kids = <<>> THEN <<>>
  ELSE LET node == Head(kids) IN
       (IF node.nodeType = TEXT_NODE THEN node.data
        ELSE IF node.nodeType # ELEMENT_NODE THEN <<>>
        ELSE CASE node.tagName \in {"ul", "ol"} -> <<>>
               [] node.tagName \in {"strong", "b"} ->
                    <<"*", "*">> \o getListItemText(node) \o <<"*", "*">>
               [] node.tagName \in {"em", "i"} -> <<"_">> \o getListItemText(node) \o <<"_">>
               [] node.tagName = "code" -> <<"BACKTICK">> \o textContent(node) \o <<"BACKTICK">>
               [] node.tagName = "a" ->
                    (IF getAttribute(node, "href") # <<>>
                     THEN LinkMarkdown(getListItemText(node), getAttribute(node, "href"))
                     ELSE getListItemText(node))
               [] OTHER -> getListItemText(node))
       \o getListItemTextOfAll(Tail(kids))

\* The elements of a list with the given tags, in order
RECURSIVE WithTags(_, _)
WithTags(els, tags) ==
  IF els = <<>> THEN <<>>
  ELSE (IF Head(els).tagName \in tags THEN <<Head(els)>> ELSE <<>>) \o WithTags(Tail(els), tags)

\* convertList(element, builder): ConvertListItems is its loop over the li
\* children from number itemNumber on, ConvertNestedLists the inner loop
\* over the ul/ol children of one item.
RECURSIVE convertList(_, _)
RECURSIVE ConvertListItems(_, _, _, _)
RECURSIVE ConvertNestedLists(_, _)
convertList(element, b) ==
  IF element.tagName = "li"
  THEN LET text == Trim(getListItemText(element)) IN
       IF text # <<>> THEN BAddLine(b, text) ELSE b
  ELSE LET items == WithTags(children(element), {"li"})
           isTopLevel == b.currentIndent = 0
           b1 == IF isTopLevel THEN BAddBlankLine(b) ELSE b
           b2 == ConvertListItems(items, element.tagName = "ol", 1, b1)
       IN IF items = <<>> THEN b
          ELSE IF isTopLevel THEN BAddBlankLine(b2) ELSE b2
ConvertListItems(items, isOrdered, itemNumber, b) ==
  IF items = <<>> THEN b
  ELSE LET item == Head(items)
           text == Trim(getListItemText(item))
           b1 == IF text # <<>> THEN BAddListItem(b, text, isOrdered, itemNumber) ELSE b
           b2 == ConvertNestedLists(WithTags(children(item), {"ul", "ol"}), b1)
       IN ConvertListItems(Tail(items), isOrdered, itemNumber + 1, b2)
ConvertNestedLists(lists, b) ==
  IF lists = <<>> THEN b
  ELSE ConvertNestedLists(Tail(lists), BOutdent(convertList(Head(lists), BIndent(b, 2)), 2))

\* Paths: a node of a tree is named by the indices that lead to it from the
\* root through childNodes, which gives "the same node" a meaning.
RECURSIVE NodeAt(_, _)
NodeAt(el, path) == IF path = <<>> THEN el ELSE NodeAt(el.childNodes[Head(path)], Tail(path))

IsPrefix(p, q) == Len(p) <= Len(q) /\ SubSeq(q, 1, Len(p)) = p

\* The paths, below prefix, of the descendant elements of kids[i..] with a
\* tag in tags, in document order.
RECURSIVE PathsIn(_, _, _, _)
PathsIn(kids, i, tags, prefix) ==
  IF i > Len(kids) THEN <<>>
  ELSE LET k == kids[i]
           here == Append(prefix, i)
       IN (IF k.nodeType = ELEMENT_NODE
           THEN (IF k.tagName \in tags THEN <<here>> ELSE <<>>)
                \o PathsIn(k.childNodes, 1, tags, here)
           ELSE <<>>)
          \o PathsIn(kids, i + 1, tags, prefix)

\* element.querySelectorAll(tags), as paths from element
querySelectorAllPaths(element, tags) == PathsIn(element.childNodes, 1, tags, <<>>)

\* extractCellText(cell)
extractCellText(cell) == Trim(textContent(cell))

\* extractRowData(row, isHeader)
extractRowData(row, isHeader) ==
  LET cellElements == querySelectorAll(row, {"td", "th"}) IN
  [j \in 1..Len(cellElements) |->
     [text |-> extractCellText(cellElements[j]),
      isHeader |-> isHeader \/ cellElements[j].tagName = "th"]]

\* The body loop of extractTableData: the rows at rowPaths[i..] that are not
\* inside the thead.
RECURSIVE BodyRows(_, _, _, _)
BodyRows(element, rowPaths, i, theadPaths) ==
  IF i > Len(rowPaths) THEN <<>>
  ELSE (IF theadPaths # <<>> /\ IsPrefix(Head(theadPaths), rowPaths[i])
        THEN <<>>
        ELSE <<extractRowData(NodeAt(element, rowPaths[i]), FALSE)>>)
       \o BodyRows(element, rowPaths, i + 1, theadPaths)

\* extractTableData(element): the grid of cells
extractTableData(element) ==
  LET theadPaths == querySelectorAllPaths(element, {"thead"})
      headerRowEls == IF theadPaths = <<>> THEN <<>>
                      ELSE querySelectorAll(NodeAt(element, Head(theadPaths)), {"tr"})
      headerRows == [i \in 1..Len(headerRowEls) |-> extractRowData(headerRowEls[i], TRUE)]
      tbodyPaths == querySelectorAllPaths(element, {"tbody"})
      tbodyPath == IF tbodyPaths = <<>> THEN <<>> ELSE Head(tbodyPaths)
      relPaths == querySelectorAllPaths(NodeAt(element, tbodyPath), {"tr"})
      rowPaths == [i \in 1..Len(relPaths) |-> tbodyPath \o relPaths[i]]
  IN headerRows \o BodyRows(element, rowPaths, 1, theadPaths)

\* Math.max(...rows.map(row => row.length)), rows not empty
RECURSIVE MaxRowLength(_)
MaxRowLength(rows) ==
  IF Len(rows) = 1 THEN Len(Head(rows))
  ELSE LET m == MaxRowLength(Tail(rows)) IN IF Len(Head(rows)) > m THEN Len(Head(rows)) ELSE m

\* firstRow.every(cell => cell.isHeader)
AllHeaders(row) == \A j \in 1..Len(row) : row[j].isHeader

\* text.replace(/\|/g, '\\|').replace(/\n/g, ' ').trim()
RECURSIVE EscapePipes(_)
EscapePipes(text) ==
  IF text = <<>> THEN <<>>
  ELSE (IF Head(text) = "|" THEN <<"\\", "|">>
        ELSE IF Head(text) = "\n" THEN <<" ">>
        ELSE <<Head(text)>>)
       \o EscapePipes(Tail(text))

escapeTableCell(text) == Trim(EscapePipes(text))

\* The calls of one pipe row of convertTable from column j on: per column,
\* the cell and ' | '.
PipeCellCalls(row, j, columnCount) ==
  Join([c \in 1..(columnCount + 1 - j) |->
          <<AddCall(IF j + c - 1 <= Len(row) THEN escapeTableCell(row[j + c - 1].text) ELSE <<>>),
            AddCall(<<" ", "|", " ">>)>>])

PipeCells(b, row, j, columnCount) == BCalls(b, PipeCellCalls(row, j, columnCount))

\* One pipe row: '| ', the cells, and the end of the line
PipeRowCalls(row, columnCount) ==
  <<AddCall(<<"|", " ">>)>> \o PipeCellCalls(row, 1, columnCount) \o <<AddLineCall(<<>>)>>

PipeRow(b, row, columnCount) == BCalls(b, PipeRowCalls(row, columnCount))

SeparatorCellCalls(j, columnCount) ==
  Join([c \in 1..(columnCount + 1 - j) |->
          <<AddCall(<<"-", "-", "-">>), AddCall(<<" ", "|", " ">>)>>])

SeparatorCells(b, j, columnCount) == BCalls(b, SeparatorCellCalls(j, columnCount))

SeparatorRowCalls(columnCount) ==
  <<AddCall(<<"|", " ">>)>> \o SeparatorCellCalls(1, columnCount) \o <<AddLineCall(<<>>)>>

SeparatorRow(b, columnCount) == BCalls(b, SeparatorRowCalls(columnCount))

\* The pipe rows of the rows from rows[i] on
PipeRowsCalls(rows, i, columnCount) ==
  Join([r \in 1..(Len(rows) + 1 - i) |-> PipeRowCalls(rows[i + r - 1], columnCount)])

PipeRows(b, rows, i, columnCount) == BCalls(b, PipeRowsCalls(rows, i, columnCount))

\* The sub-items of one row of the list form from cell j on: label: value
\* per cell, empty cells skipped.
RowListItemCalls(row, j, headers) ==
  Join([c \in 1..(Len(row) + 1 - j) |->
          LET cell == row[j + c - 1]
              label == IF j + c - 1 <= Len(headers) /\ headers[j + c - 1].text # <<>>
                       THEN headers[j + c - 1].text
                       ELSE <<"Column", " ", NumberAtom(j + c - 1)>>
          IN IF cell.text = <<>> THEN <<>>
             ELSE <<AddListItemCall(label \o <<":", " ">> \o cell.text, FALSE, 1)>>])

RowListItems(b, row, j, headers) == BCalls(b, RowListItemCalls(row, j, headers))

\* The list form of the rows from rows[i] on: 'Row n:' and, indented, the
\* sub-items of the row
RowsAsListCalls(rows, i, dataStartIndex, headers) ==
  Join([r \in 1..(Len(rows) + 1 - i) |->
          <<AddListItemCall(<<"Row", " ", NumberAtom(i + r - 1 - dataStartIndex), ":">>, FALSE, 1),
            IndentCall(2)>>
          \o RowListItemCalls(rows[i + r - 1], 1, headers)
          \o <<OutdentCall(2)>>])

RowsAsList(b, rows, i, dataStartIndex, headers) ==
  BCalls(b, RowsAsListCalls(rows, i, dataStartIndex, headers))

\* convertTableToList(rows, builder) of the table converter; rows are
\* indexed from 1 here, so dataStartIndex is the number of header rows.
tableConvertTableToList(rows, b) ==
  IF rows = <<>> THEN b
  ELSE LET hasHeaders == AllHeaders(rows[1])
           headers == IF hasHeaders THEN rows[1] ELSE <<>>
           dataStartIndex == IF hasHeaders THEN 1 ELSE 0
       IN BCalls(b, <<AddBlankLineCall>>
                    \o RowsAsListCalls(rows, dataStartIndex + 1, dataStartIndex, headers)
                    \o <<AddBlankLineCall>>)

\* convertTable(element, builder)
convertTable(element, b) ==
  LET rows == extractTableData(element) IN
  IF rows = <<>> THEN b
  ELSE LET maxColumns == MaxRowLength(rows) IN
       IF maxColumns > 5 THEN tableConvertTableToList(rows, b)
       ELSE LET isHeader == AllHeaders(rows[1]) IN
            BCalls(b, <<AddBlankLineCall>>
                      \o (IF isHeader
                          THEN PipeRowCalls(rows[1], maxColumns) \o SeparatorRowCalls(maxColumns)
                          ELSE <<>>)
                      \o PipeRowsCalls(rows, IF isHeader THEN 2 ELSE 1, maxColumns)
                      \o <<AddBlankLineCall>>)

(***************************************************************************)
(* The structure optimizer: StructureOptimizer.  Each pass takes the root  *)
(* element and returns it as the pass leaves it.                           *)
(***************************************************************************)

HeadingTags == {"h1", "h2", "h3", "h4", "h5", "h6"}

BoldTags == {"strong", "b"}

ItalicTags == {"em", "i"}

ListTags == {"ul", "ol"}

ContainerTags == {"div", "section"}

Reverse(s) == [i \in 1..Len(s) |-> s[Len(s) + 1 - i]]

\* `H${newLevel}`.toLowerCase()
HeadingTag(level) == <<"h1", "h2", "h3", "h4", "h5", "h6">>[level]

\* A loop that leaves every heading with the level it has
NormalizedLevelsKept(levels, i, lastLevel) == SubSeq(levels, i, Len(levels))

\* The loop of normalizeHeadingHierarchy over the levels of the headings in
\* document order: the level each heading is left with
RECURSIVE NormalizedLevels(_, _, _)
NormalizedLevels(levels, i, lastLevel) ==
  IF i > Len(levels) THEN <<>>
  ELSE LET newLevel == IF lastLevel > 0 /\ levels[i] > lastLevel + 1
                       THEN lastLevel + 1
                       ELSE levels[i]
       IN <<newLevel>> \o NormalizedLevels(levels, i + 1, newLevel)

\* The element at path replaced by an element of the given tag with the
\* same attributes and child nodes
RECURSIVE WithTagAt(_, _, _)
WithTagAt(element, path, tag) ==
  IF path = <<>> THEN [element EXCEPT !.tagName = tag]
  ELSE [element EXCEPT !.childNodes[Head(path)] = WithTagAt(@, Tail(path), tag)]

RECURSIVE WithTagsAt(_, _, _, _)
WithTagsAt(element, paths, tags, i) ==
  IF i > Len(paths) THEN element
  ELSE WithTagsAt(WithTagAt(element, paths[i], tags[i]), paths, tags, i + 1)

\* normalizeHeadingHierarchy(element).  createElement finds the document of
\* the element, or the global document of a page.
normalizeHeadingHierarchy(element) ==
  IF ~HasDescendant(element, HeadingTags) THEN element
  ELSE LET paths == querySelectorAllPaths(element, HeadingTags)
           levels == [i \in 1..Len(paths) |-> HeadingLevel(NodeAt(element, paths[i]).tagName)]
           newLevels == NormalizedLevels(levels, 1, 0)
       IN WithTagsAt(element, paths, [i \in 1..Len(paths) |-> HeadingTag(newLevels[i])], 1)

\* The child nodes kids after each element with a tag in tags, below them at
\* any depth, has given its place to its child nodes.  With inside FALSE only
\* the elements that have an ancestor with a tag in tags do so.
RECURSIVE Unwrapped(_, _, _)
Unwrapped(kids, tags, inside) ==
  Join([i \in 1..Len(kids) |->
          IF kids[i].nodeType # ELEMENT_NODE THEN <<kids[i]>>
          ELSE IF inside /\ kids[i].tagName \in tags
          THEN Unwrapped(kids[i].childNodes, tags, TRUE)
          ELSE <<[kids[i] EXCEPT
                    !.childNodes = Unwrapped(@, tags, inside \/ kids[i].tagName \in tags)]>>])

\* The loop over the em and i elements of a heading: one that is the only
\* child node of the heading gives its place to its child nodes
RECURSIVE WithoutOnlyItalic(_)
WithoutOnlyItalic(heading) ==
  IF /\ Len(heading.childNodes) = 1
     /\ heading.childNodes[1].nodeType = ELEMENT_NODE
     /\ heading.childNodes[1].tagName \in ItalicTags
  THEN WithoutOnlyItalic([heading EXCEPT !.childNodes = heading.childNodes[1].childNodes])
  ELSE heading

\* The loop of removeRedundantFormatting over the headings below kids
RECURSIVE HeadingsUnformatted(_)
HeadingsUnformatted(kids) ==
  [i \in 1..Len(kids) |->
     IF kids[i].nodeType # ELEMENT_NODE THEN kids[i]
     ELSE IF kids[i].tagName \in HeadingTags
     THEN [WithoutOnlyItalic([kids[i] EXCEPT !.childNodes = Unwrapped(@, BoldTags, TRUE)])
             EXCEPT !.childNodes = HeadingsUnformatted(@)]
     ELSE [kids[i] EXCEPT !.childNodes = HeadingsUnformatted(@)]]

\* removeNestedFormatting(element)
removeNestedFormatting(element) ==
  LET bold == IF HasDescendant(element, BoldTags)
              THEN [element EXCEPT
                      !.childNodes = Unwrapped(@, BoldTags, element.tagName \in BoldTags)]
              ELSE element
  IN IF HasDescendant(bold, ItalicTags)
     THEN [bold EXCEPT !.childNodes = Unwrapped(@, ItalicTags, bold.tagName \in ItalicTags)]
     ELSE bold

\* removeRedundantFormatting(element)
removeRedundantFormatting(element) ==
  removeNestedFormatting(IF HasDescendant(element, HeadingTags)
                         THEN [element EXCEPT !.childNodes = HeadingsUnformatted(@)]
                         ELSE element)

\* The items of the lists removed for one li, in the order in which the loop
\* of flattenDeeplyNestedLists moves them: the lists are taken deepest first
\* and, at one depth, in document order.
PromotedItems(promoted) ==
  LET deepest == IF promoted = <<>> THEN 0
                 ELSE CHOOSE d \in {promoted[i].depth : i \in 1..Len(promoted)} :
                        \A i \in 1..Len(promoted) : promoted[i].depth <= d
      sorted == Join([j \in 1..deepest |->
                        SelectSeq(promoted, LAMBDA g : g.depth = deepest + 1 - j)])
  IN Join([k \in 1..Len(sorted) |-> sorted[k].items])

\* What flattenDeeplyNestedLists leaves of the child nodes kids, which have
\* listDepth lists and, when insideLi, an li among their ancestors:
\*   nodes    - the nodes that stand where kids stood
\*   promoted - for each list removed whose closest li is above kids, its
\*              depth and its li children
\* Every item moved is put right after the li, so the items of an li end up
\* after it in the reverse of the order in which they were moved.
RECURSIVE FlattenLists(_, _, _, _)
FlattenLists(kids, listDepth, insideLi, maxNestingDepth) ==
  LET each == [i \in 1..Len(kids) |->
        IF kids[i].nodeType # ELEMENT_NODE THEN [nodes |-> <<kids[i]>>, promoted |-> <<>>]
        ELSE LET isList == kids[i].tagName \in ListTags
                 depth == IF isList THEN listDepth + 1 ELSE listDepth
                 below == FlattenLists(kids[i].childNodes, depth,
                                       insideLi \/ kids[i].tagName = "li", maxNestingDepth)
             IN IF kids[i].tagName = "li"
                THEN [nodes |-> <<[kids[i] EXCEPT !.childNodes = below.nodes]>>
                                  \o Reverse(PromotedItems(below.promoted)),
                      promoted |-> <<>>]
                ELSE IF isList /\ depth > maxNestingDepth /\ insideLi
                THEN [nodes |-> <<>>,
                      promoted |-> <<[depth |-> depth,
                                      items |-> WithTags(ElementsOf(below.nodes), {"li"})]>>
                                   \o below.promoted]
                ELSE [nodes |-> <<[kids[i] EXCEPT !.childNodes = below.nodes]>>,
                      promoted |-> below.promoted]]
  IN [nodes |-> Join([i \in 1..Len(kids) |-> each[i].nodes]),
      promoted |-> Join([i \in 1..Len(kids) |-> each[i].promoted])]

\* flattenDeeplyNestedLists(element).  The items of a list whose closest li
\* is the root have no place to go to and are removed with the list.
flattenDeeplyNestedLists(element, maxNestingDepth) ==
  IF ~HasDescendant(element, ListTags) THEN element
  ELSE [element EXCEPT
          !.childNodes = FlattenLists(@, IF element.tagName \in ListTags THEN 1 ELSE 0,
                                      element.tagName = "li", maxNestingDepth).nodes]

\* Some element at or below element has two text nodes next to each other
HasAdjacentTextNodes(element) ==
  LET entries == Preorder(element) IN
  \E i \in 1..Len(entries) :
    \E j \in 1..(Len(entries[i].node.childNodes) - 1) :
      /\ entries[i].node.childNodes[j].nodeType = TEXT_NODE
      /\ entries[i].node.childNodes[j + 1].nodeType = TEXT_NODE

\* The loop of mergeTextNodesRecursive over the child nodes of one element:
\* each run of adjacent text nodes becomes its first node, with the text of
\* all of them
MergedTextRuns(kids) ==
  LET first == KeepWhere([i \in 1..Len(kids) |-> i],
                         LAMBDA i : ~(/\ i > 1
                                      /\ kids[i].nodeType = TEXT_NODE
                                      /\ kids[i - 1].nodeType = TEXT_NODE))
  IN [j \in 1..Len(first) |->
        LET last == IF j < Len(first) THEN first[j + 1] - 1 ELSE Len(kids) IN
        IF kids[first[j]].nodeType = TEXT_NODE
        THEN [kids[first[j]] EXCEPT
                !.data = Join([k \in 1..(last - first[j] + 1) |-> kids[first[j] + k - 1].data])]
        ELSE kids[first[j]]]

\* mergeTextNodesRecursive(element)
RECURSIVE mergeTextNodesRecursive(_)
mergeTextNodesRecursive(element) ==
  [element EXCEPT
     !.childNodes = MergedTextRuns([i \in 1..Len(@) |->
                                      IF @[i].nodeType = ELEMENT_NODE
                                      THEN mergeTextNodesRecursive(@[i])
                                      ELSE @[i]])]

\* mergeAdjacentTextNodes(element)
mergeAdjacentTextNodes(element) ==
  IF HasAdjacentTextNodes(element) THEN mergeTextNodesRecursive(element) ELSE element

\* The atoms whose last character is a colon, and those whose first
\* character is an upper-case letter
ColonEnded ==
  {"https:", "javascript:", "JavaScript:", "vbscript:", "VBScript:", "data:", "DATA:",
   "file:", "about:", "chrome:", "chrome-extension:", "brush:"}

UpperStarted == {"Row", "Column", "Image", "JavaScript:", "VBScript:", "DATA:"}

\* ['.', '!', '?', ':', ';'].includes(currentText.slice(-1))
EndsSentence(text) == text[Len(text)] \in {".", "!", "?", ":", ";"} \cup ColonEnded

\* firstChar === firstChar.toLowerCase() for the first character of nextText
StartsLowerCase(text) == text[1] \notin UpperStarted

\* The test of mergeAdjacentParagraphs on the trimmed texts of two
\* paragraphs: the second looks like a continuation of the first
LooksLikeContinuation(currentText, nextText) ==
  /\ currentText # <<>>
  /\ nextText # <<>>
  /\ ~EndsSentence(currentText)
  /\ StartsLowerCase(nextText)

\* Some element at or below element has two p elements among its child nodes
HasSiblingParagraphs(element) ==
  LET entries == Preorder(element) IN
  \E i \in 1..Len(entries) :
    \E j, k \in {n \in 1..Len(entries[i].node.childNodes) :
                   /\ entries[i].node.childNodes[n].nodeType = ELEMENT_NODE
                   /\ entries[i].node.childNodes[n].tagName = "p"} : j < k

\* The index in done of the paragraph that a p coming next is compared
\* with and found adjacent to: a p that is the last element of done and has
\* no p below it (the paragraphs are taken in document order, so the one
\* before the p coming next is then this one); 0 when there is none.
CurrentParagraph(done) ==
  LET elements == {i \in 1..Len(done) : done[i].nodeType = ELEMENT_NODE}
      last == IF elements = {} THEN 0 ELSE CHOOSE i \in elements : \A j \in elements : j <= i
  IN IF last > 0 /\ done[last].tagName = "p" /\ ~HasDescendant(done[last], {"p"})
     THEN last
     ELSE 0

\* The loop of mergeAdjacentParagraphs as it passes the child nodes kids
\* from the i-th on, done being what it left of those before: a p that
\* continues the current paragraph is removed and its trimmed text appended
\* to the trimmed text of the current one, which becomes its only child node.
RECURSIVE MergeParagraphsIn(_, _, _)
MergeParagraphsIn(kids, i, done) ==
  IF i > Len(kids) THEN done
  ELSE LET next == kids[i]
           c == IF next.nodeType = ELEMENT_NODE /\ next.tagName = "p"
                THEN CurrentParagraph(done)
                ELSE 0
       IN IF c > 0 /\ LooksLikeContinuation(Trim(textContent(done[c])), Trim(textContent(next)))
          THEN Then([done EXCEPT
                       ![c].childNodes = <<TextNode(Trim(textContent(done[c])) \o <<" ">>
                                                    \o Trim(textContent(next)))>>],
                    LAMBDA merged : MergeParagraphsIn(kids, i + 1, merged))
          ELSE Then(Append(done, IF next.nodeType = ELEMENT_NODE
                                 THEN [next EXCEPT !.childNodes = MergeParagraphsIn(@, 1, <<>>)]
                                 ELSE next),
                    LAMBDA passed : MergeParagraphsIn(kids, i + 1, passed))

\* mergeAdjacentParagraphs(element)
mergeAdjacentParagraphs(element) ==
  IF HasSiblingParagraphs(element)
  THEN [element EXCEPT !.childNodes = MergeParagraphsIn(@, 1, <<>>)]
  ELSE element

\* The depth of the optimizer, of getOptimizerOptions(), and the number at
\* which getElementNestingDepth stops counting
OPTIMIZER_MAX_NESTING_DEPTH == 5

NESTING_DEPTH_COUNT_LIMIT == 10

\* getElementNestingDepth with a counter that stops at the depth of the
\* optimizer
getElementNestingDepthStoppingEarly(containersAbove) ==
  IF 1 + containersAbove < OPTIMIZER_MAX_NESTING_DEPTH
  THEN 1 + containersAbove
  ELSE OPTIMIZER_MAX_NESTING_DEPTH

\* getElementNestingDepth(element) of an element with the given number of
\* div and section elements among its ancestors
getElementNestingDepth(containersAbove) ==
  IF 1 + containersAbove < NESTING_DEPTH_COUNT_LIMIT
  THEN 1 + containersAbove
  ELSE NESTING_DEPTH_COUNT_LIMIT

\* One turn of the loop of flattenDeeplyNestedElements, told over the nodes
\* in document order: a div or section that is too deep and is the child of
\* a div or section gives its place to its child nodes.  The loop of the
\* code restarts after each such step and takes the first such element in
\* document order, which has no such element above it, so the elements are
\* settled from the root down.  t.path tells of each ancestor of the node
\* whether it is kept and whether it is a div or section; t.out holds the
\* nodes kept so far, each without its child nodes and with the depth it is
\* left at.
ContainerTurn(t, entries, maxNestingDepth) ==
  LET e == entries[t.i]
      above == SubSeq(t.path, 1, e.depth)
      keptAbove == SelectSeq(above, LAMBDA a : a.kept)
      containersAbove == Len(SelectSeq(keptAbove, LAMBDA a : a.container))
      isContainer == e.node.nodeType = ELEMENT_NODE /\ e.node.tagName \in ContainerTags
      removed == /\ e.depth > 0
                 /\ isContainer
                 /\ keptAbove[Len(keptAbove)].container
                 /\ getElementNestingDepth(containersAbove) > maxNestingDepth
  IN [i |-> t.i + 1,
      path |-> Append(above, [kept |-> ~removed, container |-> isContainer]),
      out |-> IF removed THEN t.out
              ELSE Append(t.out, [node |-> [e.node EXCEPT !.childNodes = <<>>],
                                  depth |-> Len(keptAbove)])]

\* k turns of that loop, by halves
RECURSIVE ContainerTurns(_, _, _, _)
ContainerTurns(t, k, entries, maxNestingDepth) ==
  IF k = 0 THEN t
  ELSE IF k = 1 THEN ContainerTurn(t, entries, maxNestingDepth)
  ELSE Then(ContainerTurns(t, k - (k \div 2), entries, maxNestingDepth),
            LAMBDA mid : ContainerTurns(mid, k \div 2, entries, maxNestingDepth))

\* The entries above depth d, each of those at depth d - 1 with the entries
\* that follow it as its child nodes; no entry is deeper than d.
Attached(entries, d) ==
  LET upper == KeepWhere([i \in 1..Len(entries) |-> i], LAMBDA i : entries[i].depth < d)
  IN [k \in 1..Len(upper) |->
        IF entries[upper[k]].depth = d - 1
        THEN [entries[upper[k]] EXCEPT
                !.node.childNodes =
                   [j \in 1..((IF k < Len(upper) THEN upper[k + 1] ELSE Len(entries) + 1)
                              - upper[k] - 1) |-> entries[upper[k] + j].node]]
        ELSE entries[upper[k]]]

\* The entries above depth d - k, with what lies below them attached, by
\* halves
RECURSIVE AttachedLevels(_, _, _)
AttachedLevels(entries, d, k) ==
  IF k = 0 THEN entries
  ELSE IF k = 1 THEN Attached(entries, d)
  ELSE Then(AttachedLevels(entries, d, k - (k \div 2)),
            LAMBDA mid : AttachedLevels(mid, d - (k - (k \div 2)), k \div 2))

\* The tree whose nodes in document order, with their depths, are entries
TreeOf(entries) ==
  LET deepest == CHOOSE d \in {entries[i].depth : i \in 1..Len(entries)} :
                   \A i \in 1..Len(entries) : entries[i].depth <= d
  IN AttachedLevels(entries, deepest, deepest)[1].node

\* flattenDeeplyNestedElements(element)
flattenDeeplyNestedElements(element, maxNestingDepth) ==
  IF ~HasDescendant(element, ContainerTags) THEN element
  ELSE LET entries == Preorder(element) IN
       TreeOf(ContainerTurns([i |-> 1, path |-> <<>>, out |-> <<>>], Len(entries), entries,
                             maxNestingDepth).out)

\* optimizeStructure(element) of an optimizer with the options oo
optimizeStructure(element, oo) ==
  Then(IF oo.normalizeHeadings THEN normalizeHeadingHierarchy(element) ELSE element,
       LAMBDA headings :
  Then(IF oo.removeRedundantFormatting THEN removeRedundantFormatting(headings) ELSE headings,
       LAMBDA formatting :
  Then(IF oo.flattenLists THEN flattenDeeplyNestedLists(formatting, oo.maxNestingDepth)
       ELSE formatting,
       LAMBDA lists :
  Then(IF oo.mergeAdjacentElements THEN mergeAdjacentTextNodes(lists) ELSE lists,
       LAMBDA textsMerged :
  Then(IF oo.mergeAdjacentElements THEN mergeAdjacentParagraphs(textsMerged) ELSE textsMerged,
       LAMBDA merged : flattenDeeplyNestedElements(merged, oo.maxNestingDepth))))))

(***************************************************************************)
(* The text normalizers: normalizeWhitespace, normalizeUnicode and         *)
(* fixCommonIssues                                                         *)
(***************************************************************************)

\* Classes of characters, on atoms.  The atoms named here are made of
\* characters that are not word characters (\w is [A-Za-z0-9_]); ZWSP, ZWNJ
\* and ZWJ are the zero-width characters U+200B to U+200D, BEL a control
\* character, EMDASH and ELLIPSIS U+2014 and U+2026.
SymbolAtoms ==
  Whitespace \cup
  {"[", "]", "(", ")", "*", "BACKTICK", "|", "-", "#", ">", "<", ":", ".", ",", ";", "!", "?",
   "\"", "'", "\\", "/", "//", "+", "=", "&", "ZWSP", "ZWNJ", "ZWJ", "BEL", "EMDASH", "ELLIPSIS"}

\* [.,;!?]
SentencePunctuation == {".", ",", ";", "!", "?"}

\* The atoms that end with a full stop: what is left of a host name when a
\* space is put after each full stop of it
DotEnded == {"example.", "cdn."}

\* The atoms of decimal digits, and those of one word character
DigitAtoms == {ToString(n) : n \in 0..99}

OneCharWords == {"_", "r", "c"} \cup {ToString(n) : n \in 0..9}

\* `__PROTECTED_${kind}_${index}__`
ProtectedName(kind, index) == "__PROTECTED_" \o kind \o "_" \o ToString(index) \o "__"

ProtectedIndexes == 0..31

ProtectedNames ==
  {ProtectedName(kind, index) : kind \in {"IMAGE", "LINK", "CODE"}, index \in ProtectedIndexes}

\* parseInt(index, 10) of a placeholder
ProtectedIndexOf(name) ==
  CHOOSE index \in ProtectedIndexes :
    \E kind \in {"IMAGE", "LINK", "CODE"} : ProtectedName(kind, index) = name

\* \w at the start and at the end of an atom, [A-Za-z] and [A-Z] at its start
StartsWithWordChar(a) == a \notin SymbolAtoms /\ a # "%20"

EndsWithWordChar(a) == a \notin SymbolAtoms /\ a \notin ColonEnded /\ a \notin DotEnded

StartsWithLetter(a) ==
  StartsWithWordChar(a) /\ a \notin DigitAtoms /\ a # "_" /\ a \notin ProtectedNames

StartsWithUpperCase(a) == a \in UpperStarted

\* The least number of a set of numbers that is not empty
Least(S) == CHOOSE n \in S : \A m \in S : n <= m

\* s[i] lies in a run of atoms of Space that follows an atom for which
\* Before holds and is followed by one for which After holds
InRunBetween(s, i, Space, Before(_), After(_)) ==
  /\ s[i] \in Space
  /\ \E r \in 2..i : (\A k \in r..i : s[k] \in Space) /\ Before(s[r - 1])
  /\ \E j \in i..(Len(s) - 1) : (\A k \in i..j : s[k] \in Space) /\ After(s[j + 1])

\* s[i] lies in a run of atoms of Space that follows an atom for which
\* Before holds
InRunAfter(s, i, Space, Before(_)) ==
  /\ s[i] \in Space
  /\ \E r \in 2..i : (\A k \in r..i : s[k] \in Space) /\ Before(s[r - 1])

\* s[i] lies in a run of atoms of Space followed by an atom for which After
\* holds
InRunBefore(s, i, Space, After(_)) ==
  /\ s[i] \in Space
  /\ \E j \in i..(Len(s) - 1) : (\A k \in i..j : s[k] \in Space) /\ After(s[j + 1])

\* The end of the match of /\[([^\]]*)\]\(([^)]+)\)/ that starts at s[i]; 0
\* when there is none
LinkMatchEnd(s, i) ==
  IF i > Len(s) \/ s[i] # "[" THEN 0
  ELSE LET closing == {j \in (i + 1)..Len(s) : s[j] = "]"} IN
       IF closing = {} THEN 0
       ELSE LET j == Least(closing)
                ending == {k \in (j + 2)..Len(s) : s[k] = ")"}
            IN IF j = Len(s) \/ ending = {} THEN 0
               ELSE IF s[j + 1] # "(" \/ Least(ending) = j + 2 THEN 0
               ELSE Least(ending)

\* The end of the match of /`[^`]+`/ that starts at s[i]; 0 when there is
\* none
CodeMatchEnd(s, i) ==
  IF s[i] # "BACKTICK" THEN 0
  ELSE LET ending == {k \in (i + 1)..Len(s) : s[k] = "BACKTICK"} IN
       IF ending = {} \/ Least(ending) = i + 1 THEN 0 ELSE Least(ending)

\* The end of the match that starts at s[i] of the pattern that protects
\* images, links or inline code
MatchEnd(s, i, kind) ==
  IF kind = "IMAGE" THEN (IF s[i] = "!" THEN LinkMatchEnd(s, i + 1) ELSE 0)
  ELSE IF kind = "LINK" THEN LinkMatchEnd(s, i)
  ELSE CodeMatchEnd(s, i)

\* One of the three replace calls that protect: the text from s[from] on
\* with each match replaced by its placeholder, and protectedElements with
\* the matches pushed
RECURSIVE Protect(_, _, _, _)
Protect(s, from, kind, protectedElements) ==
  LET starts == {i \in from..Len(s) : MatchEnd(s, i, kind) > 0} IN
  IF starts = {} THEN [text |-> SubSeq(s, from, Len(s)), protectedElements |-> protectedElements]
  ELSE LET i == Least(starts)
           rest == Protect(s, MatchEnd(s, i, kind) + 1, kind,
                           Append(protectedElements, SubSeq(s, i, MatchEnd(s, i, kind))))
       IN [text |-> SubSeq(s, from, i - 1)
                    \o <<ProtectedName(kind, Len(protectedElements))>> \o rest.text,
           protectedElements |-> rest.protectedElements]

\* text.replace(/(\S)[ \t]+/g, '$1 ')
CollapseSpaces(s) ==
  KeepWhere([i \in 1..Len(s) |-> IF s[i] = "\t" /\ i > 1 /\ s[i - 1] \notin Whitespace
                                 THEN " "
                                 ELSE s[i]],
            LAMBDA i : ~(/\ i > 1
                         /\ s[i - 1] \in {" ", "\t"}
                         /\ InRunAfter(s, i, {" ", "\t"}, LAMBDA a : a \notin Whitespace)))

\* text.replace(/(\w) +([.,;!?])/g, '$1$2')
NoSpaceBeforePunctuation(s) ==
  KeepWhere(s, LAMBDA i : ~InRunBetween(s, i, {" "}, EndsWithWordChar,
                                        LAMBDA a : a \in SentencePunctuation))

\* What replace(/([.,;!?])(?=[A-Za-z])/g, '$1 ') makes of one atom: a host
\* name has letters after its full stops.
SpacedInside(a) ==
  IF a = "example.com" THEN <<"example.", " ", "com">>
  ELSE IF a = "cdn.example.com" THEN <<"cdn.", " ", "example.", " ", "com">>
  ELSE <<a>>

\* text.replace(/([.,;!?])(?=[A-Za-z])/g, '$1 ')
SpaceAfterPunctuation(s) ==
  Join([i \in 1..Len(s) |->
          SpacedInside(s[i])
          \o (IF /\ s[i] \in SentencePunctuation \cup DotEnded
                 /\ i < Len(s)
                 /\ StartsWithLetter(s[i + 1])
              THEN <<" ">>
              ELSE <<>>)])

\* /^\s*[-*+]\s/ or /^\s*\d+\.\s/ matches the line
IsListLine(line) ==
  LET t == TrimStart(line) IN
  \/ Len(t) >= 2 /\ t[1] \in {"-", "*", "+"} /\ t[2] \in Whitespace
  \/ Len(t) >= 3 /\ t[1] \in DigitAtoms /\ t[2] = "." /\ t[3] \in Whitespace

\* text.split('\n').map(...).join('\n'): each line is trimmed, a list line at
\* its end only
TrimLines(s) ==
  LET lines == SplitLines(s) IN
  JoinLines([k \in 1..Len(lines) |->
               IF IsListLine(lines[k]) THEN TrimEnd(lines[k]) ELSE Trim(lines[k])])

\* The replace call that restores: each placeholder gives its place to
\* protectedElements[index], or to nothing when there is no such element.
\* What is put in is not read again.
Restore(s, protectedElements) ==
  Join([i \in 1..Len(s) |->
          IF s[i] \notin ProtectedNames THEN <<s[i]>>
          ELSE IF ProtectedIndexOf(s[i]) < Len(protectedElements)
          THEN protectedElements[ProtectedIndexOf(s[i]) + 1]
          ELSE <<>>])

\* normalizeWhitespace(text)
normalizeWhitespace(text) ==
  Then(Protect(text, 1, "IMAGE", <<>>), LAMBDA images :
  Then(Protect(images.text, 1, "LINK", images.protectedElements), LAMBDA links :
  Then(Protect(links.text, 1, "CODE", links.protectedElements), LAMBDA code :
  Then(CollapseSpaces(code.text), LAMBDA spaced :
  Then(CollapseNewlines(spaced), LAMBDA collapsed :
  Then(NoSpaceBeforePunctuation(collapsed), LAMBDA tightened :
  Then(SpaceAfterPunctuation(tightened), LAMBDA punctuated :
  Then(TrimLines(punctuated), LAMBDA normalized :
  Then(Restore(normalized, code.protectedElements), LAMBDA restored :
  Then(TrimStart(restored), LAMBDA start :
    IF start # <<>> /\ start[1] \in {"-", "*", "+"} \cup DigitAtoms
    THEN TrimEnd(restored)
    ELSE Trim(restored)))))))))))

\* normalizeUnicode(text).  The two replace calls for quotes name the ASCII
\* quotes and put the same quotes in their place.
normalizeUnicode(text) ==
  Join([i \in 1..Len(text) |->
          IF text[i] \in {"ZWSP", "ZWNJ", "ZWJ", "BOM", "BEL"} THEN <<>>
          ELSE IF text[i] = "EMDASH" THEN <<"-">>
          ELSE IF text[i] = "ELLIPSIS" THEN <<".", ".", ".">>
          ELSE IF text[i] = "NBSP" THEN <<" ">>
          ELSE <<text[i]>>])

\* text.replace(/([.!?])([A-Z])/g, '$1 $2')
SpaceAfterSentence(s) ==
  Join([i \in 1..Len(s) |->
          <<s[i]>> \o (IF /\ s[i] \in {".", "!", "?"} \cup DotEnded
                          /\ i < Len(s)
                          /\ StartsWithUpperCase(s[i + 1])
                       THEN <<" ">>
                       ELSE <<>>)])

\* text.replace(/\.{4,}/g, '...')
ThreeDots(s) == KeepWhere(s, LAMBDA i : ~(i >= 4 /\ \A k \in (i - 3)..i : s[k] = "."))

\* text.replace(/!{2,}/g, '!') and text.replace(/\?{2,}/g, '?')
OneMark(s, mark) == KeepWhere(s, LAMBDA i : ~(i >= 2 /\ s[i] = mark /\ s[i - 1] = mark))

\* text.replace(/" +(?=\w)/g, '"')
NoSpaceAfterQuote(s) ==
  KeepWhere(s, LAMBDA i : ~InRunBetween(s, i, {" "}, LAMBDA a : a = "\"", StartsWithWordChar))

\* text.replace(/(?<=\w) +"/g, '"')
NoSpaceBeforeQuote(s) ==
  KeepWhere(s, LAMBDA i : ~InRunBetween(s, i, {" "}, EndsWithWordChar, LAMBDA a : a = "\""))

\* /(\w)"(\w)/g matches at the quote s[i]: the character after the quote of
\* one match is not the character before the quote of the next.
RECURSIVE QuoteBetweenWords(_, _)
QuoteBetweenWords(s, i) ==
  /\ i > 1
  /\ i < Len(s)
  /\ s[i] = "\""
  /\ EndsWithWordChar(s[i - 1])
  /\ StartsWithWordChar(s[i + 1])
  /\ ~(s[i - 1] \in OneCharWords /\ QuoteBetweenWords(s, i - 2))

\* text.replace(/(\w)"(\w)/g, '$1" $2')
SpaceAfterClosingQuote(s) ==
  Join([i \in 1..Len(s) |-> <<s[i]>> \o (IF QuoteBetweenWords(s, i) THEN <<" ">> ELSE <<>>)])

\* text.replace(/\( +/g, '(')
NoSpaceAfterParenthesis(s) ==
  KeepWhere(s, LAMBDA i : ~InRunAfter(s, i, {" "}, LAMBDA a : a = "("))

\* text.replace(/ +\)/g, ')')
NoSpaceBeforeParenthesis(s) ==
  KeepWhere(s, LAMBDA i : ~InRunBefore(s, i, {" "}, LAMBDA a : a = ")"))

\* fixCommonIssues(text)
fixCommonIssues(text) ==
  Then(SpaceAfterSentence(text), LAMBDA sentences :
  Then(ThreeDots(sentences), LAMBDA dots :
  Then(OneMark(dots, "!"), LAMBDA exclamations :
  Then(OneMark(exclamations, "?"), LAMBDA questions :
  Then(NoSpaceAfterQuote(questions), LAMBDA opened :
  Then(NoSpaceBeforeQuote(opened), LAMBDA closed :
  Then(SpaceAfterClosingQuote(closed), LAMBDA quoted :
  Then(NoSpaceAfterParenthesis(quoted), LAMBDA leftTight :
  Then(NoSpaceBeforeParenthesis(leftTight), StripTrailing)))))))))

(***************************************************************************)
(* The conversion engine: HTMLToMarkdownConverter                          *)
(***************************************************************************)


SKIP_TAGS ==
  {"script", "style", "noscript", "iframe", "object", "embed", "applet", "form", "input",
   "button", "select", "textarea", "option", "meta", "link", "base", "head", "title"}

INLINE_TAGS ==
  {"strong", "b", "em", "i", "code", "span", "a", "img", "br", "sub", "sup", "mark", "del", "ins"}

\* The traversal stops below this depth.
MAX_TRAVERSAL_DEPTH == 80

\* The elapsed time is checked once in this many processed nodes.
TIMEOUT_CHECK_INTERVAL == 1000

\* The byte length of '<!DOCTYPE html><html><body>' and '</body></html>',
\* which convert() puts around a fragment before it is parsed.
FRAGMENT_WRAPPER_BYTES == 41

\* The fields of the converter that the element handlers write: the builder,
\* linkDeduplicator, linkCount and imageCount.  A handler takes this record
\* and returns it updated.
EngineFields(b, links, nLinks, nImages) ==
  [builder |-> b, linkDeduplicator |-> links, linkCount |-> nLinks, imageCount |-> nImages]

\* extractParagraphTextWithDeduplication(element): the text, with the
\* de-duplication set and the link count it leaves.  acc is
\* [text, linkDeduplicator, linkCount].
RECURSIVE extractParagraphText(_, _, _)
RECURSIVE extractParagraphTextOfAll(_, _, _)
extractParagraphText(element, acc, deduplicateLinks) ==
  extractParagraphTextOfAll(element.childNodes, acc, deduplicateLinks)
extractParagraphTextOfAll(kids, acc, deduplicateLinks) ==
  IF kids = <<>> THEN acc
  ELSE LET node == Head(kids)
           \* the recursive call on a child element, starting from empty text
           inner == extractParagraphText(node, [acc EXCEPT !.text = <<>>], deduplicateLinks)
           href == getAttribute(node, "href")
           next ==
             IF node.nodeType = TEXT_NODE THEN [acc EXCEPT !.text = @ \o node.data]
             ELSE IF node.nodeType # ELEMENT_NODE THEN acc
             ELSE CASE node.tagName \in {"strong", "b"} ->
                         [inner EXCEPT !.text = acc.text \o <<"*", "*">> \o inner.text \o <<"*", "*">>]
                    [] node.tagName \in {"em", "i"} ->
                         [inner EXCEPT !.text = acc.text \o <<"_">> \o inner.text \o <<"_">>]
                    [] node.tagName = "code" ->
                         [acc EXCEPT !.text = @ \o <<"BACKTICK">> \o textContent(node) \o <<"BACKTICK">>]
                    [] node.tagName = "a" ->
                         IF href # <<>> /\ deduplicateLinks
                         THEN IF href \in inner.linkDeduplicator
                              THEN [inner EXCEPT !.text = acc.text \o inner.text]
                              ELSE [text |-> acc.text \o LinkMarkdown(inner.text, href),
                                    linkDeduplicator |-> inner.linkDeduplicator \cup {href},
                                    linkCount |-> inner.linkCount + 1]
                         ELSE [inner EXCEPT !.text = acc.text \o
                                 (IF href # <<>> THEN LinkMarkdown(inner.text, href) ELSE inner.text)]
                    [] node.tagName = "br" -> [acc EXCEPT !.text = @ \o <<" ", " ", "\n">>]
                    [] OTHER -> [inner EXCEPT !.text = acc.text \o inner.text]
       IN extractParagraphTextOfAll(Tail(kids), next, deduplicateLinks)

\* convertParagraphWithDeduplication(element)
convertParagraphWithDeduplication(element, e, deduplicateLinks) ==
  LET r == extractParagraphText(element,
                                [text |-> <<>>, linkDeduplicator |-> e.linkDeduplicator,
                                 linkCount |-> e.linkCount],
                                deduplicateLinks)
      text == Trim(r.text)
  IN [e EXCEPT !.builder = IF text # <<>> THEN BAddParagraph(e.builder, text) ELSE e.builder,
               !.linkDeduplicator = r.linkDeduplicator,
               !.linkCount = r.linkCount]

\* convertLinkWithDeduplication(element)
convertLinkWithDeduplication(element, e, deduplicateLinks) ==
  LET href == getAttribute(element, "href")
      linkText == Trim(textContent(element))
  IN IF href # <<>> /\ deduplicateLinks /\ href \in e.linkDeduplicator
     THEN [e EXCEPT !.builder = BAdd(e.builder, linkText)]
     ELSE [e EXCEPT !.builder = convertLink(element, e.builder),
                    !.linkDeduplicator = IF href # <<>> /\ deduplicateLinks THEN @ \cup {href} ELSE @,
                    !.linkCount = @ + 1]

\* shouldSimplifyTable(element)
shouldSimplifyTable(element, simplifyTables) ==
  IF ~simplifyTables THEN FALSE
  ELSE IF element.tagName # "table" THEN FALSE
  ELSE LET rows == querySelectorAll(element, {"tr"}) IN
       IF Len(rows) > 20 THEN TRUE
       ELSE rows # <<>> /\ Len(querySelectorAll(rows[1], {"td", "th"})) > 5

\* One row of the converter's own convertTableToList from cell i on: the
\* cell texts with ' | ' before each but the first of the row.
ListRowCellCalls(cells, i) ==
  Join([c \in 1..(Len(cells) + 1 - i) |->
          (IF i + c - 1 > 1 THEN <<AddCall(<<" ", "|", " ">>)>> ELSE <<>>)
          \o <<AddCall(Trim(textContent(cells[i + c - 1])))>>])

ListRowCells(b, cells, i) == BCalls(b, ListRowCellCalls(cells, i))

\* The rows: '- ', the cells and the end of the line for each row that has
\* cells
ListRowCalls(rows) ==
  Join([r \in 1..Len(rows) |->
          LET cells == querySelectorAll(rows[r], {"td", "th"}) IN
          IF cells # <<>>
          THEN <<AddCall(<<"-", " ">>)>> \o ListRowCellCalls(cells, 1) \o <<AddLineCall(<<>>)>>
          ELSE <<>>])

ListRows(b, rows) == BCalls(b, ListRowCalls(rows))

\* convertTableToList(element) of the converter
convertTableToList(element, b) ==
  BCalls(b, <<AddBlankLineCall>> \o ListRowCalls(querySelectorAll(element, {"tr"}))
            \o <<AddBlankLineCall>>)

\* needsBlockSpacing(element)
needsBlockSpacing(element) ==
  \E i \in 1..Len(children(element)) : children(element)[i].tagName \notin INLINE_TAGS

\* processElement(element, tagName, depth): the fields it leaves, and in
\* pushChildren its return value.  opts is the converter's options.
RECURSIVE processElement(_, _, _, _)
RECURSIVE processInlineChildren(_, _, _)
processElement(element0, depth, e, opts) ==
  LET tagName == element0.tagName
      element == IF tagName \in {"a", "img", "iframe"} /\ depth < MAX_TRAVERSAL_DEPTH
                 THEN sanitizeAttributes(element0)
                 ELSE element0
      own(e1) == [fields |-> e1, pushChildren |-> FALSE]
      b == e.builder
  IN CASE tagName \in {"h1", "h2", "h3", "h4", "h5", "h6"} ->
            own([e EXCEPT !.builder = convertHeading(element, b)])
       [] tagName = "p" ->
            own(convertParagraphWithDeduplication(element, e, opts.deduplicateLinks))
       [] tagName = "a" ->
            own(convertLinkWithDeduplication(element, e, opts.deduplicateLinks))
       [] tagName = "img" ->
            own([e EXCEPT !.builder = convertImage(element, b), !.imageCount = @ + 1])
       [] tagName \in {"code", "pre"} ->
            own([e EXCEPT !.builder = convertCode(element, b)])
       [] tagName = "blockquote" ->
            own([e EXCEPT !.builder = convertBlockquote(element, b)])
       [] tagName \in {"ul", "ol"} ->
            own([e EXCEPT !.builder = convertList(element, b)])
       [] tagName \in {"table", "thead", "tbody", "tr", "td", "th"} ->
            own([e EXCEPT !.builder = IF shouldSimplifyTable(element, opts.simplifyTables)
                                      THEN convertTableToList(element, b)
                                      ELSE convertTable(element, b)])
       [] tagName = "br" ->
            own([e EXCEPT !.builder = BAdd(b, <<" ", " ", "\n">>)])
       [] tagName = "hr" ->
            own([e EXCEPT !.builder = BAddBlankLine(BAddLine(BAddBlankLine(b), <<"-", "-", "-">>))])
       [] tagName \in {"strong", "b"} ->
            LET e1 == processInlineChildren(element.childNodes,
                                            [e EXCEPT !.builder = BAdd(b, <<"*", "*">>)], opts)
            IN own([e1 EXCEPT !.builder = BAdd(e1.builder, <<"*", "*">>)])
       [] tagName \in {"em", "i"} ->
            LET e1 == processInlineChildren(element.childNodes,
                                            [e EXCEPT !.builder = BAdd(b, <<"_">>)], opts)
            IN own([e1 EXCEPT !.builder = BAdd(e1.builder, <<"_">>)])
       [] tagName \in {"div", "section", "article", "main", "aside", "header", "footer"} ->
            [fields |-> [e EXCEPT !.builder = IF needsBlockSpacing(element)
                                              THEN BAddBlankLine(b) ELSE b],
             pushChildren |-> TRUE]
       [] OTHER -> [fields |-> e, pushChildren |-> TRUE]
\* processInlineChildren(element), over the child nodes still to visit
processInlineChildren(kids, e, opts) ==
  IF kids = <<>> THEN e
  ELSE LET child == Head(kids)
           e1 == IF child.nodeType = TEXT_NODE
                 THEN [e EXCEPT !.builder = convertText(child, e.builder)]
                 ELSE IF child.nodeType = ELEMENT_NODE /\ child.tagName \in INLINE_TAGS
                 THEN processElement(child, 0, e, opts).fields
                 ELSE e
       IN processInlineChildren(Tail(kids), e1, opts)

(***************************************************************************)
(* Errors                                                                  *)
(***************************************************************************)

\* An error object: its class name, the code of a BaseError ("" for a plain
\* Error, which has none) and the fields the subclasses add.
NoError ==
  [name |-> "", code |-> "", threatType |-> "", actualSize |-> 0, maxSize |-> 0,
   timeout |-> 0, message |-> ""]

PlainError(message) == [NoError EXCEPT !.name = "Error", !.message = message]

InvalidHTMLError(message) ==
  [NoError EXCEPT !.name = "InvalidHTMLError", !.code = "INVALID_HTML", !.message = message]

SizeLimitError(actualSize, maxSize) ==
  [NoError EXCEPT !.name = "SizeLimitError", !.code = "SIZE_LIMIT_EXCEEDED",
                  !.actualSize = actualSize, !.maxSize = maxSize,
                  !.message = "Input size exceeds maximum allowed size"]

ConversionTimeoutError(timeout) ==
  [NoError EXCEPT !.name = "ConversionTimeoutError", !.code = "CONVERSION_TIMEOUT",
                  !.timeout = timeout, !.message = "Conversion timed out"]

SecurityError(message, threatType) ==
  [NoError EXCEPT !.name = "SecurityError", !.code = "SECURITY_VIOLATION",
                  !.threatType = threatType, !.message = message]

(***************************************************************************)
(* Inputs and parsing                                                      *)
(***************************************************************************)

\* An HTML string is known by what the code asks of it: whether it starts
\* as a full document, its UTF-8 byte length, whether it holds a null byte,
\* whether the DOM parser reports a parsererror, and the body element the
\* DOM parser makes of it.  A Document or Element input has only the tree.
HtmlString(fullDocument, byteSize, body) ==
  [type |-> "string", fullDocument |-> fullDocument, byteSize |-> byteSize,
   hasNullByte |-> FALSE, parserError |-> FALSE, root |-> body]

DocumentInput(body) ==
  [type |-> "document", fullDocument |-> TRUE, byteSize |-> 0,
   hasNullByte |-> FALSE, parserError |-> FALSE, root |-> body]

ElementInput(element) ==
  [type |-> "element", fullDocument |-> FALSE, byteSize |-> 0,
   hasNullByte |-> FALSE, parserError |-> FALSE, root |-> element]

\* What is neither a string, a Document nor an Element
OtherInput ==
  [type |-> "other", fullDocument |-> FALSE, byteSize |-> 0,
   hasNullByte |-> FALSE, parserError |-> FALSE, root |-> TextNode(<<>>)]

Body(kids) == Element("body", kids)

\* doc.documentElement of the document parsed from a string with this body
DocumentElement(body) == Element("html", <<Element("head", <<>>), body>>)

\* validateInput(html): the error it throws, NoError when it returns
validateInput(byteSize, hasNullByte) ==
  IF hasNullByte THEN SecurityError("Input contains null bytes", "NULL_BYTE_INJECTION")
  ELSE IF byteSize > VALIDATE_MAX_BYTES THEN SecurityError("Input too large", "SIZE_LIMIT")
  ELSE NoError

\* SafeDOMParser.parse(html): the error it throws, NoError when it returns
\* the document
SafeDOMParserParse(byteSize, hasNullByte, parserError, body) ==
  LET v == validateInput(byteSize, hasNullByte) IN
  IF v # NoError THEN v
  ELSE IF parserError THEN InvalidHTMLError("Failed to parse HTML")
  ELSE IF NestingTooDeep(DocumentElement(body), 0)
       THEN SecurityError("HTML nesting depth exceeds maximum", "EXCESSIVE_NESTING")
  ELSE NoError

(***************************************************************************)
(* The converter as a state machine                                        *)
(***************************************************************************)

VARIABLES
  family,            \* which family of inputs this behaviour draws from
  options,           \* this.options
  builder,           \* this.builder
  linkDeduplicator,  \* this.linkDeduplicator
  linkCount,         \* this.linkCount
  imageCount,        \* this.imageCount
  processedNodes,    \* this.processedNodes
  startTime,         \* this.startTime
  clock,             \* performance.now()
  stack,             \* the stack of processNodeIteratively, top last
  pc,                \* "idle", or "traversing" inside processNodeIteratively
  input,             \* the argument of the convert() call under way or last made
  result,            \* how the last convert() call ended
  calls              \* the number of convert() calls made on this converter

\* The state of the browser entry point and its WorkerPool
VARIABLES
  poolCreated,       \* workerPool is not null
  workers,           \* this.workers, as the number of workers created: worker w is 1..workers
  availableWorkers,  \* this.availableWorkers
  pendingTasks,      \* this.pendingTasks: the message of each task
  inbox,             \* per worker, the messages posted to it that it has not handled
  responses,         \* per worker, the responses it posted that the pool has not handled
  promises,          \* per convertToMarkdown call, its arguments and the state of its promise
  workerErrors       \* the number of error events workers have fired

poolVars ==
  <<poolCreated, workers, availableWorkers, pendingTasks, inbox, responses, promises,
    workerErrors>>

engineVars ==
  <<family, options, builder, linkDeduplicator, linkCount, imageCount, processedNodes,
    startTime, clock, stack, pc, input, result, calls>>

\* The bounds of the model
MaxCalls == 2
MaxClock == 2
MaxAnchors == 2

\* How a call ended: the Markdown returned, or the error thrown and the
\* statement that threw it.
NoResult == [status |-> "none", markdown |-> <<>>, error |-> NoError, site |-> ""]

Returned(markdown) == [status |-> "ok", markdown |-> markdown, error |-> NoError, site |-> ""]

Thrown(error, site) == [status |-> "error", markdown |-> <<>>, error |-> error, site |-> site]

\* The options of the constructor, defaults applied.  The timeout is in
\* ticks of the clock.
DefaultOptions ==
  [timeout |-> MaxClock, maxInputSize |-> VALIDATE_MAX_BYTES, optimizationLevel |-> "standard",
   normalizeHeadings |-> TRUE, flattenDeepNesting |-> TRUE, removeRedundantFormatting |-> TRUE,
   mergeAdjacentElements |-> TRUE, simplifyTables |-> TRUE, deduplicateLinks |-> TRUE]

\* shouldOptimize()
shouldOptimize(opts) == opts.optimizationLevel # "minimal"

\* getOptimizerOptions()
getOptimizerOptions(opts) ==
  [maxNestingDepth |-> OPTIMIZER_MAX_NESTING_DEPTH,
   flattenLists |-> opts.flattenDeepNesting,
   normalizeHeadings |-> opts.normalizeHeadings,
   removeRedundantFormatting |-> opts.removeRedundantFormatting,
   mergeAdjacentElements |-> opts.mergeAdjacentElements]

\* The root as the traversal finds it: optimizeStructure has changed it in
\* place when the converter optimizes and the root is an element.
OptimizedRoot(rootNode, opts) ==
  IF shouldOptimize(opts) /\ rootNode.nodeType = ELEMENT_NODE
  THEN optimizeStructure(rootNode, getOptimizerOptions(opts))
  ELSE rootNode

\* The Markdown convert() returns for what the builder gives it: the text
\* normalizers are applied when the converter optimizes.
NormalizedMarkdown(markdown, opts) ==
  IF shouldOptimize(opts)
  THEN Then(normalizeWhitespace(markdown), LAMBDA spaced :
       Then(normalizeUnicode(spaced), fixCommonIssues))
  ELSE markdown

\* The first part of convert(input), to the call of processNodeIteratively:
\* the builder is replaced, the input is parsed if it is a string, the
\* structure of the root is optimized, and the traversal starts at the
\* root; or the call throws.
ConvertBegin(inp) ==
  /\ pc = "idle"
  /\ calls < MaxCalls
  /\ calls' = calls + 1
  /\ input' = inp
  /\ builder' = NewBuilder
  /\ LET parsedBytes == IF inp.fullDocument THEN inp.byteSize
                        ELSE inp.byteSize + FRAGMENT_WRAPPER_BYTES
         parseError == SafeDOMParserParse(parsedBytes, inp.hasNullByte, inp.parserError, inp.root)
         thrown == IF inp.type = "string"
                   THEN (IF parseError # NoError THEN Thrown(parseError, "parse") ELSE NoResult)
                   ELSE IF inp.type \in {"document", "element"} THEN NoResult
                   ELSE Thrown(PlainError("cash-out: Invalid input type. Expected string, Document, or Element."),
                               "input type")
     IN IF thrown # NoResult
        THEN /\ result' = thrown
             /\ UNCHANGED <<pc, stack>>
        ELSE /\ result' = NoResult
             /\ stack' = <<[node |-> OptimizedRoot(inp.root, options), depth |-> 0]>>
             /\ pc' = "traversing"
  /\ UNCHANGED <<family, options, linkDeduplicator, linkCount, imageCount, processedNodes,
                 startTime, clock>>
  /\ UNCHANGED poolVars

\* The children of an element as frames, pushed first child first
ChildFramesInOrder(kids, depth) ==
  [i \in 1..Len(kids) |-> [node |-> kids[i], depth |-> depth]]

\* The children of an element as frames, pushed so that the first child is
\* popped first.
ChildFrames(kids, depth) ==
  [i \in 1..Len(kids) |-> [node |-> kids[Len(kids) + 1 - i], depth |-> depth]]

\* The body of the loop of processNodeIteratively after the timeout check,
\* for the frame popped: the stack and the fields of the converter it leaves.
VisitFrame(frame, rest, e, opts) ==
  LET node == frame.node
      depth == frame.depth
      r == processElement(node, depth, e, opts)
  IN IF depth > MAX_TRAVERSAL_DEPTH THEN [stack |-> rest, fields |-> e]
     ELSE IF node.nodeType = TEXT_NODE
     THEN [stack |-> rest, fields |-> [e EXCEPT !.builder = convertText(node, e.builder)]]
     ELSE IF node.nodeType # ELEMENT_NODE THEN [stack |-> rest, fields |-> e]
     ELSE IF node.tagName \in SKIP_TAGS THEN [stack |-> rest, fields |-> e]
     ELSE [stack |-> IF r.pushChildren /\ node.childNodes # <<>> /\ depth < MAX_TRAVERSAL_DEPTH
                     THEN rest \o ChildFrames(node.childNodes, depth + 1)
                     ELSE rest,
           fields |-> r.fields]

\* One turn of the loop of processNodeIteratively that does not read the
\* clock, on the stack, the counter and the fields of the converter; nothing
\* when the stack is empty.
LoopTurn(t, opts) ==
  IF t.stack = <<>> THEN t
  ELSE LET v == VisitFrame(t.stack[Len(t.stack)], SubSeq(t.stack, 1, Len(t.stack) - 1),
                           t.fields, opts)
       IN [stack |-> v.stack, fields |-> v.fields, processedNodes |-> t.processedNodes + 1]

\* k turns of the loop, none of which reads the clock, by halves
RECURSIVE LoopTurns(_, _, _)
LoopTurns(t, k, opts) ==
  IF k = 0 \/ t.stack = <<>> THEN t
  ELSE IF k = 1 THEN LoopTurn(t, opts)
  ELSE Then(LoopTurns(t, k - (k \div 2), opts), LAMBDA mid : LoopTurns(mid, k \div 2, opts))

\* The turns of the loop before the next one that reads the clock
TurnsToTimeoutCheck(processed) ==
  TIMEOUT_CHECK_INTERVAL - 1 - (processed % TIMEOUT_CHECK_INTERVAL)

\* The loop of processNodeIteratively from one reading of the clock to the
\* next: the turn that reads the clock, which throws when the timeout has
\* passed, and the turns after it up to the next such turn or to the end
\* of the stack.
ProcessFrame ==
  /\ pc = "traversing"
  /\ stack # <<>>
  /\ IF /\ (processedNodes + 1) % TIMEOUT_CHECK_INTERVAL = 0
        /\ clock - startTime > options.timeout
     THEN \* throw new Error('cash-out: Conversion timeout')
          /\ processedNodes' = processedNodes + 1
          /\ result' = Thrown(PlainError("cash-out: Conversion timeout"), "timeout check")
          /\ pc' = "idle"
          /\ stack' = <<>>
          /\ UNCHANGED <<builder, linkDeduplicator, linkCount, imageCount>>
     ELSE \E t \in {LoopTurns([stack |-> stack,
                                fields |-> EngineFields(builder, linkDeduplicator, linkCount,
                                                        imageCount),
                                processedNodes |-> processedNodes],
                               1 + TurnsToTimeoutCheck(processedNodes + 1), options)} :
            /\ stack' = t.stack
            /\ processedNodes' = t.processedNodes
            /\ builder' = t.fields.builder
            /\ linkDeduplicator' = t.fields.linkDeduplicator
            /\ linkCount' = t.fields.linkCount
            /\ imageCount' = t.fields.imageCount
            /\ UNCHANGED <<pc, result>>
  /\ UNCHANGED <<family, options, startTime, clock, input, calls>>
  /\ UNCHANGED poolVars

\* processNodeIteratively(rootNode) run to its end by a converter whose
\* timeout check does not fire: the fields of the converter it leaves
RECURSIVE processNodes(_, _, _)
processNodes(frames, e, opts) ==
  IF frames = <<>> THEN e
  ELSE Then(VisitFrame(frames[Len(frames)], SubSeq(frames, 1, Len(frames) - 1), e, opts),
            LAMBDA v : processNodes(v.stack, v.fields, opts))

\* convert(document) by a converter just constructed, for a document of
\* fewer nodes than the timeout check waits for: the Markdown returned
convertDocument(body, opts) ==
  Then(OptimizedRoot(body, opts), LAMBDA rootNode :
  Then(processNodes(<<[node |-> rootNode, depth |-> 0]>>,
                    EngineFields(NewBuilder, {}, 0, 0), opts), LAMBDA e :
  Then(BBuild(e.builder), LAMBDA markdown : NormalizedMarkdown(markdown, opts))))

\* The rest of convert() after the traversal: the Markdown is built,
\* normalized and returned.
ConvertFinish ==
  /\ pc = "traversing"
  /\ stack = <<>>
  /\ \E markdown \in {BBuild(builder)} :
       result' = Returned(NormalizedMarkdown(markdown, options))
  /\ pc' = "idle"
  /\ UNCHANGED <<family, options, builder, linkDeduplicator, linkCount, imageCount,
                 processedNodes, startTime, clock, stack, input, calls>>
  /\ UNCHANGED poolVars

\* Time passes.  The converter reads the clock only in the timeout check of
\* processNodeIteratively, so the time that has passed since the last reading
\* is chosen when the next turn of the loop is one that reads it.
Tick ==
  /\ pc = "traversing"
  /\ stack # <<>>
  /\ (processedNodes + 1) % TIMEOUT_CHECK_INTERVAL = 0
  /\ clock < MaxClock
  /\ clock' = clock + 1
  /\ UNCHANGED <<family, options, builder, linkDeduplicator, linkCount, imageCount,
                 processedNodes, startTime, stack, pc, input, result, calls>>
  /\ UNCHANGED poolVars

(***************************************************************************)
(* The inputs of the model                                                 *)
(***************************************************************************)

\* Texts
T1 == <<"one">>
T2 == <<"two">>
Secret == <<"secret">>

\* URLs: a safe one, a protocol-relative one and two dangerous ones
U1 == <<"https:", "//", "example.com">>
Uslash == <<"//", "cdn.example.com">>
Ujs == <<"javascript:", "alert">>
UJs == <<"JavaScript:", "alert">>

\* The byte length given to the strings whose size does not matter, and a
\* small configured limit
SmallInputBytes == 64
SmallLimit == 16

\* An anchor standing alone, inside a p, or inside an li of a ul
Placed(place, anchor) ==
  CASE place = "standalone" -> anchor
    [] place = "p" -> Element("p", <<anchor>>)
    [] OTHER -> Element("ul", <<Element("li", <<anchor>>)>>)

Places == {"standalone", "p", "li"}

TextKids(t) == IF t = <<>> THEN <<>> ELSE <<TextNode(t)>>

\* The bodies of the family of links: one anchor, or two anchors with the
\* same href, the second with the text T2
OneAnchorBodies ==
  {Body(<<Placed(place, Anchor(href, <<TextNode(T1)>>))>>) :
     place \in Places, href \in {U1, Uslash, Ujs, UJs}}

TwoAnchorBodies ==
  {Body(<<Placed(f[1], Anchor(f[2], TextKids(f[3]))), Placed(place, Anchor(f[2], <<TextNode(T2)>>))>>) :
     f \in Places \X {U1, Uslash, Ujs} \X {T1, <<>>}, place \in Places}

LinkBodies == IF MaxAnchors >= 2 THEN OneAnchorBodies \cup TwoAnchorBodies ELSE OneAnchorBodies

\* The bodies of the family of skipped elements: an element of the skip set
\* with text in it, next to visible text, inside each kind of container
Skipped(tag) == Element(tag, <<TextNode(Secret)>>)

SkipBodies ==
  {Body(<<k>>) : k \in UNION {
     {Element("div", <<TextNode(T2), Skipped(tag)>>),
      Element("h1", <<TextNode(T2), Skipped(tag)>>),
      Element("p", <<TextNode(T2), Skipped(tag)>>),
      Element("ul", <<Element("li", <<TextNode(T2), Skipped(tag)>>)>>),
      Element("blockquote", <<TextNode(T2), Skipped(tag)>>),
      Element("table", <<Element("tr", <<Element("td", <<TextNode(T2), Skipped(tag)>>)>>)>>)}
     : tag \in {"script", "style"}}}

\* n elements of one tag nested in one another around a node, built by
\* halves
RECURSIVE Nest(_, _, _)
Nest(tag, n, node) ==
  IF n = 0 THEN node
  ELSE IF n = 1 THEN Element(tag, <<node>>)
  ELSE Then(Nest(tag, n - (n \div 2), node), LAMBDA inner : Nest(tag, n \div 2, inner))

Chain(tag, depth, text) == Nest(tag, depth, TextNode(text))

\* The depths of nesting around the two limits of the code
ChainDepths ==
  {MAX_TRAVERSAL_DEPTH - 1, MAX_TRAVERSAL_DEPTH, MAX_TRAVERSAL_DEPTH + 1,
   MAX_NESTING_DEPTH - 1, MAX_NESTING_DEPTH}

NestingBodies ==
  {Body(<<Chain("span", d, T1)>>) : d \in ChainDepths}
  \cup {Body(<<Chain("div", MAX_TRAVERSAL_DEPTH + 1, T1)>>)}

\* A table of the given numbers of rows and columns, its first row of th
\* cells when it has headers
Cell(tag, r, c) == Element(tag, <<TextNode(<<"r", ToString(r), "c", ToString(c)>>)>>)

Table(rowCount, columnCount, hasHeaders) ==
  Element("table",
          [r \in 1..rowCount |->
             Element("tr", [c \in 1..columnCount |->
                              Cell(IF hasHeaders /\ r = 1 THEN "th" ELSE "td", r, c)])])

TableBodies ==
  {Body(<<Table(d[1], d[2], h)>>) : d \in {<<2, 2>>, <<2, 6>>}, h \in BOOLEAN}
  \cup {Body(<<Table(d[1], d[2], TRUE)>>) : d \in {<<2, 5>>, <<20, 2>>, <<21, 2>>}}

\* A document of as many nodes as the timeout check waits for: the body and
\* comments
WideBody == Body([i \in 1..(TIMEOUT_CHECK_INTERVAL - 1) |-> CommentNode(<<"c">>)])

\* The bodies given as a full document, as a Document and as an Element
KindBodies ==
  {Body(<<Placed(place, Anchor(U1, <<TextNode(T1)>>))>>) : place \in {"standalone", "p"}}

(***************************************************************************)
(* The browser entry point: convertToMarkdown and its WorkerPool           *)
(***************************************************************************)

\* new WorkerPool(): the default size
PoolSize == 4

\* The bounds of the model of the pool
MaxTasks == 5
MaxWorkerErrors == 1

WorkerIds == 1..(PoolSize + MaxWorkerErrors)

\* The strings given to the n-th call of convertToMarkdown: a page whose
\* text names the call or, in the first call, a string the DOM parser reports
\* a parsererror for or a string over the default limit
Page(n) == HtmlString(TRUE, SmallInputBytes, Body(<<Element("p", <<TextNode(<<"page", ToString(n)>>)>>)>>))

BadPage == [HtmlString(TRUE, SmallInputBytes, Body(<<>>)) EXCEPT !.parserError = TRUE]

BigPage == HtmlString(TRUE, VALIDATE_MAX_BYTES + 1, Body(<<Element("p", <<TextNode(T1)>>)>>))

PoolHtmls(n) == IF n = 1 THEN {Page(n), BadPage, BigPage} ELSE {Page(n)}

\* getErrorCode(error) of the worker
getErrorCode(error) ==
  CASE error.name = "InvalidHTMLError" -> "INVALID_HTML"
    [] error.name = "SizeLimitError" -> "SIZE_LIMIT_EXCEEDED"
    [] error.name = "ConversionTimeoutError" -> "CONVERSION_TIMEOUT"
    [] error.name = "SecurityError" -> "SECURITY_VIOLATION"
    [] OTHER -> "UNKNOWN_ERROR"

\* The strings the calls of convertToMarkdown are given
PoolPages == UNION {PoolHtmls(n) : n \in 1..(MaxTasks + 1)}

\* converter.convert(doc) of the worker for each string of PoolPages and the
\* default options, as pairs of the string and the Markdown.  The converter
\* is made for the message, so the Markdown depends on nothing else.
DefaultConversions ==
  {<<html, convertDocument(html.root, DefaultOptions)>> : html \in PoolPages}

\* converter.convert(doc) of the worker
WorkerConvert(html, opts) ==
  IF opts = DefaultOptions /\ html \in PoolPages
  THEN (CHOOSE pair \in DefaultConversions : pair[1] = html)[2]
  ELSE convertDocument(html.root, opts)

\* The response the worker posts for a message: it parses message.html and
\* converts the document with a converter of its own for this message.
WorkerResponseTo(message) ==
  LET error == SafeDOMParserParse(message.html.byteSize, message.html.hasNullByte,
                                  message.html.parserError, message.html.root)
  IN IF error = NoError
     THEN [type |-> "cash-out:result", id |-> message.id,
           markdown |-> WorkerConvert(message.html, message.options),
           error |-> [name |-> "", message |-> "", code |-> ""]]
     ELSE [type |-> "cash-out:error", id |-> message.id, markdown |-> <<>>,
           error |-> [name |-> error.name, message |-> error.message,
                      code |-> getErrorCode(error)]]

\* createErrorFromResponse(error)
createErrorFromResponse(error) ==
  CASE error.code = "INVALID_HTML" -> InvalidHTMLError(error.message)
    [] error.code = "SIZE_LIMIT_EXCEEDED" -> SizeLimitError(0, 0)
    [] error.code = "CONVERSION_TIMEOUT" -> ConversionTimeoutError(0)
    [] OTHER -> PlainError(error.message)

\* A findIndex that takes the first pending task whatever its id
FindTaskIndexAnyId(tasks, id) == IF tasks = <<>> THEN 0 ELSE 1

\* pendingTasks.findIndex(task => task.message.id === id), counted from 1;
\* 0 when there is none
FindTaskIndex(tasks, id) ==
  IF \E i \in 1..Len(tasks) : tasks[i].id = id
  THEN CHOOSE i \in 1..Len(tasks) :
         tasks[i].id = id /\ \A j \in 1..(i - 1) : tasks[j].id # id
  ELSE 0

\* processNextTask() on the given lists: the lists it leaves.  The worker
\* popped is sent the message of the first pending task, which stays pending.
processNextTask(available, tasks, boxes) ==
  IF tasks = <<>> \/ available = <<>>
  THEN [availableWorkers |-> available, inbox |-> boxes]
  ELSE [availableWorkers |-> SubSeq(available, 1, Len(available) - 1),
        inbox |-> [boxes EXCEPT ![available[Len(available)]] = Append(@, tasks[1])]]

\* Bodies of headings: every row of up to three headings of the levels 1, 3
\* and 5, rows with the levels between, and headings inside a div
Heading(level) == Element(HeadingTag(level), <<TextNode(<<"h", ToString(level)>>)>>)

MaxHeadings == 3

HeadingRows ==
  UNION {[1..n -> {1, 3, 5}] : n \in 1..MaxHeadings} \cup {<<1, 2, 4>>, <<2, 6>>, <<4, 2, 3>>}

HeadingBodies ==
  {Body([i \in 1..Len(row) |-> Heading(row[i])]) : row \in HeadingRows}
  \cup {Body(<<Heading(2), Element("div", <<Heading(4), Heading(6)>>), Heading(4)>>)}

\* Bodies of text: three paragraphs, the one in the middle of plain text,
\* of a zero-width space, of a control character or of a no-break space, and
\* a pre element whose text has empty lines
MiddleTexts == {T2, <<"ZWSP">>, <<"BEL">>, <<"NBSP">>, <<"two", "ZWSP">>}

TextBodies ==
  {Body(<<Element("p", <<TextNode(<<"one", ".">>)>>), Element("p", <<TextNode(t)>>),
          Element("p", <<TextNode(<<"Row", " ", "two">>)>>)>>) : t \in MiddleTexts}
  \cup {Body(<<Element("pre", <<TextNode(<<"one", "\n", "\n", "\n", "\n", "two">>)>>)>>)}

\* Bodies of inline code: one code element whose text is any text of up to
\* MaxCodeLen backticks and letters
MaxCodeLen == 4

CodeTexts == UNION {[1..n -> {"BACKTICK", "x"}] : n \in 1..MaxCodeLen}

CodeBodies == {Body(<<Element("code", <<TextNode(t)>>)>>) : t \in CodeTexts}

\* Bodies for the order of the traversal: two of the nodes below, or all of
\* them, side by side.  Every text node has a text of its own.
Labelled(label) == TextNode(<<label>>)

OrderItems ==
  [a |-> Labelled("a"),
   b |-> Element("div", <<Labelled("b1"), Element("span", <<Labelled("b2")>>), Labelled("b3")>>),
   c |-> Element("span", <<Labelled("c")>>),
   d |-> Element("section", <<Element("div", <<Labelled("d1")>>), Labelled("d2")>>),
   e |-> Element("p", <<Labelled("e")>>)]

OrderBodies ==
  {Body(<<OrderItems[x], OrderItems[y]>>) : x \in {"a", "b", "d"}, y \in {"b", "c", "d", "e"}}
  \cup {Body(<<OrderItems.a, OrderItems.b, OrderItems.c, OrderItems.d, OrderItems.e>>)}

\* Bodies of inline formatting: a standalone strong, b, em or i element with
\* a text, an inline element holding a text, and a text
FormatTags == {"strong", "b", "em", "i"}

InlinePassTags == {"span", "mark", "del", "ins", "sub", "sup"}

Formatted(tag, inner) ==
  Element(tag, <<Labelled("x"), Element(inner, <<Labelled("y")>>), Labelled("z")>>)

InlineBodies == {Body(<<Formatted(tag, inner)>>) : tag \in FormatTags, inner \in InlinePassTags}

\* Bodies of line breaks: a paragraph with a br between two texts, with two
\* of them between three texts, and the first inside a div
BrElement == Element("br", <<>>)

BreakBodies ==
  {Body(<<Element("p", <<Labelled("x"), BrElement, Labelled("y")>>)>>),
   Body(<<Element("p", <<Labelled("x"), BrElement, Labelled("y"), BrElement, Labelled("z")>>)>>),
   Body(<<Element("div", <<Element("p", <<Labelled("x"), BrElement, Labelled("y")>>)>>)>>)}

\* Bodies of ordered lists: an ol of three li children, each with a text of
\* its own or with none
ListItem(label, filled) == Element("li", IF filled THEN <<Labelled(label)>> ELSE <<>>)

OrderedListBodies ==
  {Body(<<Element("ol", <<ListItem("x", f[1]), ListItem("y", f[2]), ListItem("z", f[3])>>)>>) :
     f \in [1..3 -> BOOLEAN]}

\* Bodies of nested lists: n lists one inside the other, the innermost with
\* the given items.  Each inner list is the child of an li of the list
\* around it (with the text p before it) or, as in <ul><ul>...</ul></ul>,
\* the child of that list itself.
RECURSIVE ListChain(_, _, _)
ListChain(n, items, viaLi) ==
  IF n = 1 THEN Element("ul", items)
  ELSE Element("ul", <<IF viaLi
                       THEN Element("li", <<Labelled("p"), ListChain(n - 1, items, viaLi)>>)
                       ELSE ListChain(n - 1, items, viaLi)>>)

DeepListItems ==
  {<<ListItem("x", TRUE)>>, <<ListItem("x", TRUE), ListItem("y", TRUE)>>}

MaxListChain == 7

DeepListBodies ==
  {Body(<<ListChain(n, items, viaLi)>>) :
     n \in (MaxListChain - 2)..MaxListChain, items \in DeepListItems, viaLi \in BOOLEAN}

\* Bodies of nested containers: the elements with the tags of shape, one
\* inside the other in that order, the innermost with the text x
RECURSIVE TagChain(_)
TagChain(shape) ==
  Element(Head(shape), IF Len(shape) = 1 THEN <<Labelled("x")>> ELSE <<TagChain(Tail(shape))>>)

MaxContainerChain == 7

\* Chains of div elements, of div and section elements in turn, and of div
\* elements with an article element around the innermost one
ContainerShapes ==
  UNION {{[i \in 1..n |-> "div"],
          [i \in 1..n |-> IF i % 2 = 1 THEN "div" ELSE "section"],
          [i \in 1..(n + 1) |-> IF i = n THEN "article" ELSE "div"]} :
         n \in (MaxContainerChain - 2)..MaxContainerChain}

DeepContainerBodies == {Body(<<TagChain(shape)>>) : shape \in ContainerShapes}

\* Bodies of tables in sections: each row is a tr with one cell and a text
\* of its own; part is the tag of a section or "tr" for a row that is a
\* child of the table itself
LabelledRow(cellTag, label) == Element("tr", <<Element(cellTag, <<Labelled(label)>>)>>)

TablePart(part, label) ==
  IF part = "tr" THEN LabelledRow("td", label)
  ELSE Element(part, <<LabelledRow(IF part = "thead" THEN "th" ELSE "td", label)>>)

SectionShapes ==
  {<<"thead", "tbody">>, <<"thead", "tbody", "tfoot">>, <<"tbody", "tbody">>,
   <<"tr", "tr">>, <<"thead", "tr">>, <<"tbody", "tfoot">>, <<"thead", "tbody", "tbody">>}

SectionedTableBodies ==
  {Body(<<Element("table", [i \in 1..Len(shape) |-> TablePart(shape[i], <<"a", "b", "c">>[i])])>>) :
     shape \in SectionShapes}

Families == {"links", "skip", "nesting", "tables", "size", "timeout", "headings", "text", "code"}

\* The arguments of convert() in each family
Inputs(f) ==
  CASE f = "links" -> {HtmlString(FALSE, SmallInputBytes, b) : b \in LinkBodies}
    [] f = "skip" ->
         {HtmlString(FALSE, SmallInputBytes, b) : b \in SkipBodies}
         \cup {HtmlString(TRUE, SmallInputBytes, b) : b \in KindBodies}
         \cup {DocumentInput(b) : b \in KindBodies}
         \cup {ElementInput(b.childNodes[1]) : b \in KindBodies}
         \cup {OtherInput,
               [HtmlString(FALSE, SmallInputBytes, Body(<<>>)) EXCEPT !.hasNullByte = TRUE],
               [HtmlString(FALSE, SmallInputBytes, Body(<<>>)) EXCEPT !.parserError = TRUE]}
    [] f = "nesting" -> {HtmlString(FALSE, SmallInputBytes, b) : b \in NestingBodies}
    [] f = "tables" -> {HtmlString(FALSE, SmallInputBytes, b) : b \in TableBodies}
    [] f = "headings" -> {HtmlString(FALSE, SmallInputBytes, b) : b \in HeadingBodies}
    [] f = "text" -> {HtmlString(FALSE, SmallInputBytes, b) : b \in TextBodies}
    [] f = "order" -> {HtmlString(FALSE, SmallInputBytes, b) : b \in OrderBodies}
    [] f = "inline" -> {HtmlString(FALSE, SmallInputBytes, b) : b \in InlineBodies}
    [] f = "breaks" -> {HtmlString(FALSE, SmallInputBytes, b) : b \in BreakBodies}
    [] f = "lists" -> {HtmlString(FALSE, SmallInputBytes, b) : b \in OrderedListBodies}
    [] f = "deeplists" -> {HtmlString(FALSE, SmallInputBytes, b) : b \in DeepListBodies}
    [] f = "deepdivs" -> {HtmlString(FALSE, SmallInputBytes, b) : b \in DeepContainerBodies}
    [] f = "rows" -> {HtmlString(FALSE, SmallInputBytes, b) : b \in SectionedTableBodies}
    [] f = "code" -> {HtmlString(FALSE, SmallInputBytes, b) : b \in CodeBodies}
    [] f = "size" ->
         {HtmlString(full, n, Body(<<Element("p", <<TextNode(T1)>>)>>)) :
            full \in BOOLEAN,
            n \in {SmallLimit, SmallInputBytes, VALIDATE_MAX_BYTES - FRAGMENT_WRAPPER_BYTES,
                   VALIDATE_MAX_BYTES, VALIDATE_MAX_BYTES + 1, 5 * VALIDATE_MAX_BYTES,
                   5 * VALIDATE_MAX_BYTES + 1}}
    [] OTHER -> {HtmlString(FALSE, SmallInputBytes, WideBody),
                 HtmlString(FALSE, SmallInputBytes, Body(<<Element("p", <<TextNode(T1)>>)>>))}

\* The levels of optimization the converters of the model are given
OptimizationLevels == {"minimal", "standard"}

\* The options of the converter in each family
OptionsOf(f) ==
  CASE f = "links" -> {[DefaultOptions EXCEPT !.deduplicateLinks = d, !.optimizationLevel = l] :
                         d \in BOOLEAN, l \in OptimizationLevels}
    [] f = "tables" -> {[DefaultOptions EXCEPT !.simplifyTables = t, !.optimizationLevel = l] :
                          t \in BOOLEAN, l \in OptimizationLevels}
    [] f \in {"skip", "nesting", "headings", "text", "code", "rows", "lists", "breaks", "inline", "order"} -> {[DefaultOptions EXCEPT !.optimizationLevel = l] :
                                      l \in OptimizationLevels}
    [] f \in {"deeplists", "deepdivs"} -> {[DefaultOptions EXCEPT !.flattenDeepNesting = n,
                                                       !.optimizationLevel = l] :
                                   n \in BOOLEAN, l \in OptimizationLevels}
    [] f = "size" -> {[DefaultOptions EXCEPT !.maxInputSize = m] :
                        m \in {SmallLimit, VALIDATE_MAX_BYTES, 5 * VALIDATE_MAX_BYTES}}
    [] f = "timeout" -> {[DefaultOptions EXCEPT !.timeout = t] : t \in {MaxClock - 1, MaxClock}}
    [] OTHER -> {DefaultOptions}

\* A converter just constructed
NewConverter(opts) ==
  /\ options = opts
  /\ builder = NewBuilder
  /\ linkDeduplicator = {}
  /\ linkCount = 0
  /\ imageCount = 0
  /\ processedNodes = 0
  /\ startTime = 0
  /\ clock = 0
  /\ stack = <<>>
  /\ pc = "idle"
  /\ input = OtherInput
  /\ result = NoResult
  /\ calls = 0

\* The page before the first call of convertToMarkdown
NoPool ==
  /\ poolCreated = FALSE
  /\ workers = 0
  /\ availableWorkers = <<>>
  /\ pendingTasks = <<>>
  /\ inbox = [w \in WorkerIds |-> <<>>]
  /\ responses = [w \in WorkerIds |-> <<>>]
  /\ promises = <<>>
  /\ workerErrors = 0

Init ==
  /\ family \in Families
  /\ \E opts \in OptionsOf(family) : NewConverter(opts)
  /\ NoPool

Next ==
  \/ \E inp \in Inputs(family) : ConvertBegin(inp)
  \/ ProcessFrame
  \/ ConvertFinish
  \/ Tick

vars == <<engineVars, poolVars>>

Spec == Init /\ [][Next]_vars

\* The converter given the inputs that exercise what it emits for the
\* content of a document: the families of the order of the traversal,
\* inline formatting, line breaks, lists and tables, and with them the
\* family of the timeout, the one in which the clock is read.
ContentFamilies == {"timeout", "order", "inline", "breaks", "lists", "deeplists", "deepdivs", "rows"}

ContentInit ==
  /\ family \in ContentFamilies
  /\ \E opts \in OptionsOf(family) : NewConverter(opts)
  /\ NoPool

ContentSpec == ContentInit /\ [][Next]_vars

(***************************************************************************)
(* The actions of the browser entry point                                  *)
(***************************************************************************)

\* The promise of a call: the arguments of the call, the id of its message
\* (0 when none was made), and how and by which response it was settled
Promise(html, opts, id, status, markdown, error, settledBy) ==
  [html |-> html, options |-> opts, id |-> id, status |-> status, markdown |-> markdown,
   error |-> error, settledBy |-> settledBy]

\* convertToMarkdown(html, options) of the browser entry point, with
\* WorkerPool.convert: the pool is made on first use, an oversized input is
\* rejected on the main thread, any other becomes a pending task.
ConvertToMarkdown(html, opts) ==
  /\ Len(promises) < MaxTasks
  /\ LET created == ~poolCreated
         available == IF created THEN [w \in 1..PoolSize |-> w] ELSE availableWorkers
         id == Len(promises) + 1
         message == [id |-> id, html |-> html, options |-> opts]
         posted == processNextTask(available, Append(pendingTasks, message), inbox)
     IN /\ poolCreated' = TRUE
        /\ workers' = IF created THEN PoolSize ELSE workers
        /\ IF html.byteSize > opts.maxInputSize
           THEN /\ promises' = Append(promises,
                                      Promise(html, opts, 0, "rejected", <<>>,
                                              SizeLimitError(html.byteSize, opts.maxInputSize), 0))
                /\ availableWorkers' = available
                /\ UNCHANGED <<pendingTasks, inbox>>
           ELSE /\ promises' = Append(promises, Promise(html, opts, id, "pending", <<>>, NoError, 0))
                /\ pendingTasks' = Append(pendingTasks, message)
                /\ availableWorkers' = posted.availableWorkers
                /\ inbox' = posted.inbox
  /\ UNCHANGED <<responses, workerErrors>>
  /\ UNCHANGED engineVars

\* The message handler of a worker, for the oldest message posted to it
WorkerMessage(w) ==
  /\ w \in 1..workers
  /\ inbox[w] # <<>>
  /\ responses' = [responses EXCEPT ![w] = Append(@, WorkerResponseTo(Head(inbox[w])))]
  /\ inbox' = [inbox EXCEPT ![w] = Tail(@)]
  /\ UNCHANGED <<poolCreated, workers, availableWorkers, pendingTasks, promises, workerErrors>>
  /\ UNCHANGED engineVars

\* The positions of a list but one
Without(list, index) == SubSeq(list, 1, index - 1) \o SubSeq(list, index + 1, Len(list))

\* handleWorkerMessage(worker, event), for the oldest response of the worker
HandleWorkerMessage(w) ==
  /\ w \in 1..workers
  /\ responses[w] # <<>>
  /\ responses' = [responses EXCEPT ![w] = Tail(@)]
  /\ LET response == Head(responses[w])
         taskIndex == FindTaskIndex(pendingTasks, response.id)
         task == pendingTasks[taskIndex]
         remaining == Without(pendingTasks, taskIndex)
         posted == processNextTask(Append(availableWorkers, w), remaining, inbox)
     IN IF taskIndex = 0
        THEN UNCHANGED <<availableWorkers, pendingTasks, inbox, promises>>
        ELSE /\ pendingTasks' = remaining
             /\ availableWorkers' = posted.availableWorkers
             /\ inbox' = posted.inbox
             /\ promises' =
                  [promises EXCEPT ![task.id] =
                     IF response.type = "cash-out:result"
                     THEN [@ EXCEPT !.status = "resolved", !.markdown = response.markdown,
                                    !.settledBy = response.id]
                     ELSE [@ EXCEPT !.status = "rejected",
                                    !.error = createErrorFromResponse(response.error),
                                    !.settledBy = response.id]]
  /\ UNCHANGED <<poolCreated, workers, workerErrors>>
  /\ UNCHANGED engineVars

\* A worker fires an error event while it handles a message, which gets no
\* response, and handleWorkerError(worker, error) runs.
HandleWorkerError(w) ==
  /\ w \in 1..workers
  /\ workerErrors < MaxWorkerErrors
  /\ inbox[w] # <<>>
  /\ workerErrors' = workerErrors + 1
  /\ inbox' = [inbox EXCEPT ![w] = Tail(@)]
  /\ workers' = workers + 1
  /\ availableWorkers' = Append(SelectSeq(availableWorkers, LAMBDA a : a # w), workers + 1)
  /\ UNCHANGED <<poolCreated, pendingTasks, responses, promises>>
  /\ UNCHANGED engineVars

\* cleanup(), with WorkerPool.terminate: the workers are terminated and the
\* lists emptied; the next call makes a new pool.
Cleanup ==
  /\ poolCreated
  /\ poolCreated' = FALSE
  /\ workers' = 0
  /\ availableWorkers' = <<>>
  /\ pendingTasks' = <<>>
  /\ inbox' = [w \in WorkerIds |-> <<>>]
  /\ responses' = [w \in WorkerIds |-> <<>>]
  /\ UNCHANGED <<promises, workerErrors>>
  /\ UNCHANGED engineVars

PoolInit ==
  /\ family = "pool"
  /\ NewConverter(DefaultOptions)
  /\ NoPool

PoolNext ==
  \/ \E html \in PoolHtmls(Len(promises) + 1) : ConvertToMarkdown(html, DefaultOptions)
  \/ \E w \in WorkerIds : WorkerMessage(w)
  \/ \E w \in WorkerIds : HandleWorkerMessage(w)
  \/ \E w \in WorkerIds : HandleWorkerError(w)
  \/ Cleanup

PoolSpec == PoolInit /\ [][PoolNext]_vars

(***************************************************************************)
(* Properties                                                              *)
(***************************************************************************)

\* A convert() call has returned Markdown
ReturnedMarkdown == pc = "idle" /\ result.status = "ok"

\* The nodes of the tree given to convert(), the root included, in document
\* order
InputNodes ==
  LET entries == Preorder(input.root) IN [i \in 1..Len(entries) |-> entries[i].node]

\* The elements of that tree with a tag in tags, in document order
InputElements(tags) ==
  SelectSeq(InputNodes, LAMBDA n : n.nodeType = ELEMENT_NODE /\ n.tagName \in tags)

\* The Markdown that follows the text of a link with the URL url
LinkTarget(url) == <<"]", "(">> \o url \o <<")">>

\* C1: No dangerous URL reaches the output.  When convert() has returned,
\* for every a element of the input whose href starts with a dangerous
\* protocol, the Markdown contains the text of the anchor and no link with
\* that URL, wherever the anchor sits.
C1_DangerousUrlNeverLinked ==
  ReturnedMarkdown =>
    \A i \in 1..Len(InputElements({"a"})) :
      LET anchor == InputElements({"a"})[i]
          href == getAttribute(anchor, "href")
      IN StartsWithDangerousProtocol(href) =>
           /\ ~Contains(result.markdown, LinkTarget(href))
           /\ Contains(result.markdown, Trim(textContent(anchor)))

\* C2: Text inside an element of the skip set never appears in the Markdown
\* that convert() returns, wherever that element sits in the tree.
C2_SkippedTextNeverEmitted ==
  ReturnedMarkdown =>
    \A i \in 1..Len(InputElements(SKIP_TAGS)) :
      LET text == Trim(textContent(InputElements(SKIP_TAGS)[i]))
      IN text # <<>> => ~Contains(result.markdown, text)

\* The anchors of the input all stand alone or inside a paragraph
OnlyStandaloneAndParagraphAnchors == InputElements({"li", "ul", "ol"}) = <<>>

\* C3: With deduplicateLinks enabled, in the Markdown that the first
\* convert() of a converter returns for standalone and paragraph anchors, no
\* anchor after the first with a given href is emitted as a link, and a URL
\* that the sanitizer leaves as it is has exactly one link.
C3_OneLinkPerUrl ==
  (ReturnedMarkdown /\ calls = 1 /\ options.deduplicateLinks /\ OnlyStandaloneAndParagraphAnchors) =>
    \A i \in 1..Len(InputElements({"a"})) :
      LET anchors == InputElements({"a"})
          href == getAttribute(anchors[i], "href")
          first == \A j \in 1..(i - 1) : getAttribute(anchors[j], "href") # href
      IN (href # <<>> /\ ~StartsWithDangerousProtocol(href)) =>
           /\ sanitizeUrl(href) = href => Occurrences(result.markdown, LinkTarget(href)) = 1
           /\ ~first => ~Contains(result.markdown,
                                  <<"[">> \o Trim(textContent(anchors[i])) \o <<"]", "(">>)

\* C4: The de-duplication set is fresh in each convert() call.  When a second
\* or later convert() on one converter has returned, the first anchor of its
\* input for a URL is a full link in the Markdown, whatever the earlier calls
\* linked.
C4_FreshDeduplicationPerCall ==
  (ReturnedMarkdown /\ calls >= 2) =>
    \A i \in 1..Len(InputElements({"a"})) :
      LET anchors == InputElements({"a"})
          href == getAttribute(anchors[i], "href")
          text == Trim(textContent(anchors[i]))
          first == \A j \in 1..(i - 1) : getAttribute(anchors[j], "href") # href
      IN (first /\ text # <<>> /\ href # <<>> /\ sanitizeUrl(href) = href) =>
           Contains(result.markdown, LinkMarkdown(text, href))

\* C6: convert() of a string whose byte length exceeds the configured
\* maxInputSize does not reach the parser and the traversal: it throws an
\* error with the code SIZE_LIMIT_EXCEEDED, whose actualSize is the byte
\* length of the input and whose maxSize is the configured limit.
C6_OversizedStringRaisesSizeLimit ==
  (input.type = "string" /\ input.byteSize > options.maxInputSize) =>
    /\ pc = "idle"
    /\ result.status = "error"
    /\ result.error.code = "SIZE_LIMIT_EXCEEDED"
    /\ result.error.actualSize = input.byteSize
    /\ result.error.maxSize = options.maxInputSize

\* C7: A string whose byte length is at most the configured maxInputSize is
\* never rejected because of its size.
C7_WithinLimitNeverRejectedForSize ==
  (input.type = "string" /\ input.byteSize <= options.maxInputSize /\ result.status = "error") =>
    /\ result.error.code # "SIZE_LIMIT_EXCEEDED"
    /\ result.error.threatType # "SIZE_LIMIT"

\* C8: When the traversal aborts because the elapsed time exceeds the
\* configured timeout, the error thrown has the code CONVERSION_TIMEOUT and
\* carries the configured timeout.
C8_TimeoutErrorCarriesCodeAndTimeout ==
  (result.status = "error" /\ result.site = "timeout check") =>
    /\ result.error.code = "CONVERSION_TIMEOUT"
    /\ result.error.timeout = options.timeout

\* The child nodes of the elements among nodes that are not of the skip set
VisibleChildNodes(nodes) ==
  Join([i \in 1..Len(nodes) |->
          IF nodes[i].nodeType = ELEMENT_NODE /\ nodes[i].tagName \notin SKIP_TAGS
          THEN nodes[i].childNodes
          ELSE <<>>])

\* The nodes k levels below nodes, outside elements of the skip set, by halves
RECURSIVE NodesBelow(_, _)
NodesBelow(nodes, k) ==
  IF k = 0 THEN nodes
  ELSE IF k = 1 THEN VisibleChildNodes(nodes)
  ELSE Then(NodesBelow(nodes, k - (k \div 2)), LAMBDA mid : NodesBelow(mid, k \div 2))

\* The texts of the input that lie deeper than the traversal goes, outside
\* elements of the skip set
TextsBelowTraversalDepth ==
  LET deepest == NodesBelow(<<input.root>>, MAX_TRAVERSAL_DEPTH + 1)
  IN {Trim(textContent(deepest[i])) :
        i \in {j \in 1..Len(deepest) : deepest[j].nodeType = TEXT_NODE
                                       \/ (deepest[j].nodeType = ELEMENT_NODE
                                           /\ deepest[j].tagName \notin SKIP_TAGS)}}

\* C9: Excessive nesting is never handled by silent truncation.  When
\* convert() of a string has returned, no text outside skipped elements is
\* missing from the Markdown because of its depth.
C9_NoSilentTruncation ==
  (ReturnedMarkdown /\ input.type = "string") =>
    \A text \in TextsBelowTraversalDepth : Contains(result.markdown, text)

\* The tables of the input that shouldSimplifyTable sends to the list form
SimplifiedTables ==
  SelectSeq(InputElements({"table"}), LAMBDA t : shouldSimplifyTable(t, options.simplifyTables))

\* C10: Whenever convert() applies the table list fallback, the output for
\* the table is made of Row N items with label: value sub-items, and has no
\* pipe-delimited row.
C10_ListFallbackHasRowItems ==
  (ReturnedMarkdown /\ SimplifiedTables # <<>>) =>
    /\ Contains(result.markdown, <<"-", " ", "Row", " ", "1", ":">>)
    /\ ~Contains(result.markdown, <<"|">>)

\* The Markdown the worker returns for the arguments of a call
OwnMarkdown(promise) ==
  WorkerResponseTo([id |-> promise.id, html |-> promise.html, options |-> promise.options]).markdown

\* C5: Each promise of convertToMarkdown is settled only by the worker
\* response whose id is the id of the message of its own call, and a resolved
\* promise holds the Markdown of the HTML of its own call.
C5_PromiseSettledByOwnResponse ==
  \A n \in 1..Len(promises) :
    /\ promises[n].settledBy # 0 => promises[n].settledBy = promises[n].id
    /\ promises[n].status = "resolved" =>
         /\ promises[n].settledBy = promises[n].id
         /\ promises[n].markdown = OwnMarkdown(promises[n])

\* More calls than the pool has workers were made, and the promise of the
\* last of them is resolved with its page while an earlier one was too.
C5_MoreCallsThanWorkersResolved ==
  /\ Len(promises) > PoolSize
  /\ promises[Len(promises)].status = "resolved"
  /\ promises[Len(promises)].markdown = <<"page", ToString(Len(promises))>>
  /\ \E n \in 1..(Len(promises) - 1) :
       promises[n].status = "resolved" /\ promises[n].markdown # promises[Len(promises)].markdown

\* The nesting limit that the tests of checkNestingDepth name
NestingLimitOfTests == 500

\* The depth below the document element of the deepest element of the
\* document that a string given to convert() is parsed into
DeepestInputElement ==
  LET entries == Preorder(DocumentElement(input.root))
      depths == {entries[i].depth : i \in {j \in 1..Len(entries) :
                                             entries[j].node.nodeType = ELEMENT_NODE}}
  IN CHOOSE d \in depths : \A other \in depths : other <= d

\* C11: checkNestingDepth throws its SecurityError exactly when an element
\* lies deeper than 500 below the element it is given.  When convert() of a
\* string is over, it has thrown an error of code SECURITY_VIOLATION and
\* threat type EXCESSIVE_NESTING if and only if the document has an element
\* more than 500 levels below the document element.
C11_NestingRejectedExactlyPast500 ==
  (pc = "idle" /\ input.type = "string" /\ result # NoResult
     /\ ~input.hasNullByte /\ ~input.parserError /\ input.byteSize <= SmallInputBytes) =>
    ((/\ result.status = "error"
      /\ result.error.code = "SECURITY_VIOLATION"
      /\ result.error.threatType = "EXCESSIVE_NESTING")
     <=> DeepestInputElement > NestingLimitOfTests)

\* The levels of the headings below root, in document order
HeadingLevelsBelow(root) ==
  LET entries == Preorder(root)
      headings == SelectSeq(SubSeq(entries, 2, Len(entries)),
                            LAMBDA entry : /\ entry.node.nodeType = ELEMENT_NODE
                                           /\ entry.node.tagName \in HeadingTags)
  IN [i \in 1..Len(headings) |-> HeadingLevel(headings[i].node.tagName)]

\* convert() has passed the structure optimizer and has not begun the
\* traversal: the root as the optimizer left it is the one frame of the stack
JustOptimized ==
  /\ pc = "traversing"
  /\ Len(stack) = 1
  /\ stack[1].depth = 0
  /\ shouldOptimize(options)

\* C12: After heading normalization the level of every heading but the first
\* is at most one greater than the level the heading before it was left
\* with, and a heading whose level is not more than one greater than that is
\* left as it was.
C12_HeadingLevelsRiseByOne ==
  (JustOptimized /\ options.normalizeHeadings) =>
    LET before == HeadingLevelsBelow(input.root)
        after == HeadingLevelsBelow(stack[1].node)
    IN /\ Len(after) = Len(before)
       /\ \A i \in 2..Len(after) : after[i] <= after[i - 1] + 1
       /\ \A i \in 1..Len(after) :
            (i = 1 \/ before[i] <= after[i - 1] + 1) => after[i] = before[i]

\* The headings h1, h3, h5 have been normalized to the levels 1, 2, 3
C12_JumpsClamped ==
  /\ JustOptimized
  /\ options.normalizeHeadings
  /\ HeadingLevelsBelow(input.root) = <<1, 3, 5>>
  /\ HeadingLevelsBelow(stack[1].node) = <<1, 2, 3>>

\* C13: The Markdown that convert() returns never has three or more newline
\* characters in a row, whether the converter runs the text normalizers
\* after build() or not.
C13_AtMostTwoNewlinesInARow ==
  ReturnedMarkdown => ~Contains(result.markdown, <<"\n", "\n", "\n">>)


\* ---------------------------------------------------------------------
\* Inline code

\* The traversal of the call under way has ended and convert() has not yet
\* built the Markdown: the builder holds what the converters emitted.
JustTraversed == pc = "traversing" /\ stack = <<>>

\* The text of the code element that is the only child of the body converted
InlineCodeText == input.root.childNodes[1].childNodes[1].data

\* text has a run of n backticks that starts at i
IsBacktickRun(text, i, n) ==
  /\ i + n - 1 <= Len(text)
  /\ \A j \in i..(i + n - 1) : text[j] = "BACKTICK"

\* The length of the longest run of backticks of text
LongestRunOf(text) ==
  CHOOSE n \in 0..Len(text) :
    /\ n = 0 \/ \E i \in 1..Len(text) : IsBacktickRun(text, i, n)
    /\ ~\E i \in 1..Len(text) : IsBacktickRun(text, i, n + 1)

\* The spaces between the fence and the content on the side of the content
\* that has the character c
PaddingBeside(c) == IF c = "BACKTICK" THEN 2 ELSE 1

\* C14: for inline code whose longest run of backticks has length k >= 1,
\* convertCode emits one chunk: a fence of exactly k+1 backticks, the
\* padding, the text, the padding and the same fence, where the padding of a
\* side is two spaces when the text has a backtick on that side and one
\* space otherwise.
C14_FenceOneLongerThanLongestRun ==
  (family = "code" /\ JustTraversed) =>
    LET text == InlineCodeText
        k == LongestRunOf(text)
        left == PaddingBeside(text[1])
        right == PaddingBeside(text[Len(text)])
    IN k >= 1 =>
         /\ Len(builder.chunks) = 1
         /\ LET out == builder.chunks[1] IN
            /\ Len(out) = 2 * (k + 1) + left + right + Len(text)
            /\ \A i \in 1..(k + 1) : out[i] = "BACKTICK" /\ out[Len(out) + 1 - i] = "BACKTICK"
            /\ \A i \in 1..left : out[k + 1 + i] = " "
            /\ \A i \in 1..right : out[Len(out) - k - i] = " "
            /\ SubSeq(out, k + 2 + left, k + 1 + left + Len(text)) = text

\* C14, witness: the text `x`` (runs of one and two backticks, a backtick at
\* both ends) has been emitted between fences of three backticks and two
\* spaces on either side.
C14_FenceOfThreeEmitted ==
  /\ family = "code"
  /\ JustTraversed
  /\ InlineCodeText = <<"BACKTICK", "x", "BACKTICK", "BACKTICK">>
  /\ builder.chunks =
       <<<<"BACKTICK", "BACKTICK", "BACKTICK", " ", " ",
           "BACKTICK", "x", "BACKTICK", "BACKTICK",
           " ", " ", "BACKTICK", "BACKTICK", "BACKTICK">>>>


(***************************************************************************)
(* A MarkdownBuilder used on its own: one builder, and one action for each *)
(* of its methods.  The builder is the variable builder, calls counts the  *)
(* method calls made, and result holds what build() returned last or what  *)
(* a method threw last; the other variables are not used.                  *)
(***************************************************************************)

\* The method calls made on the builder in one behaviour
MaxBuilderCalls == 4

\* The arguments given to indent and outdent
MaxIndentArg == 2

IndentArgs == (-MaxIndentArg)..MaxIndentArg

\* The texts given to add, addLine and addListItem
BuilderTexts == {<<>>, <<"x">>, <<" ">>}

\* ' '.repeat(count) throws a RangeError when count is negative
RepeatThrows(count) == count < 0

RangeError(count) ==
  [NoError EXCEPT !.name = "RangeError",
                  !.message = "Invalid count value: " \o ToString(count)]

\* A method call that returns: the builder is left as the method leaves it
BuilderCall(b) ==
  /\ family = "builder"
  /\ calls < MaxBuilderCalls
  /\ calls' = calls + 1
  /\ builder' = b
  /\ UNCHANGED <<family, options, linkDeduplicator, linkCount, imageCount, processedNodes,
                 startTime, clock, stack, pc, input, result>>
  /\ UNCHANGED poolVars

\* A method call that throws at ' '.repeat(this.currentIndent), before it
\* has changed the builder
BuilderCallThrows ==
  /\ family = "builder"
  /\ calls < MaxBuilderCalls
  /\ calls' = calls + 1
  /\ result' = Thrown(RangeError(builder.currentIndent), "repeat")
  /\ UNCHANGED <<family, options, builder, linkDeduplicator, linkCount, imageCount,
                 processedNodes, startTime, clock, stack, pc, input>>
  /\ UNCHANGED poolVars

\* builder.add(text)
BuilderAdd(text) == BuilderCall(BAdd(builder, text))

\* builder.addLine(text)
BuilderAddLine(text) ==
  IF text # <<>> /\ RepeatThrows(builder.currentIndent)
  THEN BuilderCallThrows
  ELSE BuilderCall(BAddLine(builder, text))

\* builder.addBlankLine()
BuilderAddBlankLine == BuilderCall(BAddBlankLine(builder))

\* builder.indent(spaces)
BuilderIndent(spaces) == BuilderCall(BIndent(builder, spaces))

\* builder.outdent(spaces)
BuilderOutdent(spaces) == BuilderCall(BOutdent(builder, spaces))

\* builder.addListItem(text, ordered, 1)
BuilderAddListItem(text, ordered) ==
  IF RepeatThrows(builder.currentIndent)
  THEN BuilderCallThrows
  ELSE BuilderCall(BAddListItem(builder, text, ordered, 1))

\* builder.build()
BuilderBuild ==
  /\ family = "builder"
  /\ calls < MaxBuilderCalls
  /\ calls' = calls + 1
  /\ result' = Returned(BBuild(builder))
  /\ UNCHANGED <<family, options, builder, linkDeduplicator, linkCount, imageCount,
                 processedNodes, startTime, clock, stack, pc, input>>
  /\ UNCHANGED poolVars

BuilderInit ==
  /\ family = "builder"
  /\ NewConverter(DefaultOptions)
  /\ NoPool

BuilderNext ==
  \/ \E text \in BuilderTexts : BuilderAdd(text)
  \/ \E text \in BuilderTexts : BuilderAddLine(text)
  \/ BuilderAddBlankLine
  \/ \E spaces \in IndentArgs : BuilderIndent(spaces)
  \/ \E spaces \in IndentArgs : BuilderOutdent(spaces)
  \/ \E text \in BuilderTexts, ordered \in BOOLEAN : BuilderAddListItem(text, ordered)
  \/ BuilderBuild

BuilderSpec == BuilderInit /\ [][BuilderNext]_vars

\* C15: after any sequence of indent(n) and outdent(n) calls, for any
\* integers n, the indent of the builder is at least 0.
C15_IndentNeverNegative == family = "builder" => builder.currentIndent >= 0


PoolFairness ==
  \A w \in WorkerIds : WF_vars(WorkerMessage(w)) /\ WF_vars(HandleWorkerMessage(w))

PoolFairSpec == PoolInit /\ [][PoolNext]_vars /\ PoolFairness

\* C17: every promise returned by convertToMarkdown is settled in the end.
C17_EveryPromiseSettles ==
  \A n \in 1..MaxTasks :
    (Len(promises) >= n) ~> (Len(promises) >= n /\ promises[n].status # "pending")


\* The workers that hold the message of the task id, not yet handled, or
\* whose response to it the pool has not yet handled
WorkersHolding(id) ==
  {w \in WorkerIds : \/ \E i \in 1..Len(inbox[w]) : inbox[w][i].id = id
                     \/ \E i \in 1..Len(responses[w]) : responses[w][i].id = id}

\* C18: each task is posted to a worker at most once, so no task is in
\* flight on two workers at the same time.
C18_NoTaskInFlightTwice ==
  \A n \in 1..Len(promises) : Cardinality(WorkersHolding(n)) <= 1


\* The ids of the tasks that are pending
PendingIds == {pendingTasks[i].id : i \in 1..Len(pendingTasks)}

\* Worker w is in availableWorkers
IsAvailable(w) == \E i \in 1..Len(availableWorkers) : availableWorkers[i] = w

\* Worker w holds a message of a pending task, or the pool has yet to
\* handle its response to one
ProcessesPendingTask(w) == \E id \in PendingIds : w \in WorkersHolding(id)

\* C19: as long as no worker has fired an error event, each worker of the
\* pool is available or is processing a task that is still pending, and
\* once every promise is settled all the workers of the pool are available.
C19_WorkersConserved ==
  (poolCreated /\ workerErrors = 0) =>
    /\ \A w \in 1..workers : IsAvailable(w) \/ ProcessesPendingTask(w)
    /\ (\A n \in 1..Len(promises) : promises[n].status # "pending") =>
         Len(availableWorkers) = PoolSize


\* C20: the processed-node counter and the start of the elapsed time belong
\* to one convert() call: when a call begins its traversal, the counter is 0
\* and the elapsed time is measured from that moment.
C20_CountersStartAtEachCall ==
  [][(pc = "idle" /\ pc' = "traversing") =>
       (processedNodes' = 0 /\ startTime' = clock')]_vars


\* ---------------------------------------------------------------------
\* The order of the traversal

\* The tags of the elements whose children the traversal loop does not
\* visit: the skipped elements and the elements that processElement converts
\* with their children
TagsNotEntered ==
  SKIP_TAGS \cup HeadingTags
  \cup {"p", "a", "img", "code", "pre", "blockquote", "ul", "ol", "table", "thead", "tbody",
        "tr", "td", "th", "br", "hr", "strong", "b", "em", "i"}

\* The texts of the text nodes among nodes and below them that the
\* traversal loop reaches, in document order
RECURSIVE LoopTexts(_)
LoopTexts(nodes) ==
  IF nodes = <<>> THEN <<>>
  ELSE LET node == Head(nodes) IN
       (IF node.nodeType = TEXT_NODE THEN (IF node.data # <<>> THEN <<node.data>> ELSE <<>>)
        ELSE IF node.nodeType = ELEMENT_NODE /\ node.tagName \notin TagsNotEntered
        THEN LoopTexts(node.childNodes)
        ELSE <<>>)
       \o LoopTexts(Tail(nodes))

\* The root that the traversal of the call under way began at
TraversedRoot == OptimizedRoot(input.root, options)

\* The chunks of the builder that are texts of text nodes the loop reached
EmittedLoopTexts ==
  LET texts == LoopTexts(<<TraversedRoot>>) IN
  SelectSeq(builder.chunks, LAMBDA chunk : \E i \in 1..Len(texts) : texts[i] = chunk)

\* C21: the traversal emits the text nodes it reaches in document order.
\* When the traversal has ended, the chunks of the builder that are texts of
\* those nodes are the texts in the order of the document.
C21_TextsEmittedInDocumentOrder ==
  (family = "order" /\ JustTraversed) => EmittedLoopTexts = LoopTexts(<<TraversedRoot>>)

\* C21, witness: the body with all five nodes has been traversed, and the
\* texts inside the div, the span and the section were emitted between the
\* text before them and in their order.
C21_NestedTextsInOrder ==
  /\ family = "order"
  /\ JustTraversed
  /\ Len(input.root.childNodes) = 5
  /\ EmittedLoopTexts = <<<<"a">>, <<"b1">>, <<"b2">>, <<"b3">>, <<"c">>, <<"d1">>, <<"d2">>>>


\* C22: at every point of the first conversion of a converter, every URL of
\* the de-duplication set is the target of a full link that the conversion
\* has emitted.
C22_RecordedUrlsWereLinked ==
  (family = "links" /\ calls = 1 /\ pc = "traversing") =>
    \A href \in linkDeduplicator : Contains(Join(builder.chunks), LinkTarget(href))


\* The marker that processElement emits around a formatting element
FormatMarker(tag) == IF tag \in {"strong", "b"} THEN <<"*", "*">> ELSE <<"_">>

\* C23: a standalone strong, b, em or i element is emitted as its marker,
\* the texts of its inline children in document order, the text inside a
\* span, mark, del, ins, sub or sup child included, and its marker.
C23_InlineChildTextsBetweenMarkers ==
  (family = "inline" /\ JustTraversed /\ ~shouldOptimize(options)) =>
    LET marker == FormatMarker(input.root.childNodes[1].tagName) IN
    Join(builder.chunks) = marker \o <<"x", "y", "z">> \o marker


\* C24: a br inside a p is a hard break in the Markdown returned: the text
\* before it is followed by two spaces and a newline, and the text after
\* it starts the next line.
C24_BrInParagraphIsHardBreak ==
  (family = "breaks" /\ ReturnedMarkdown) =>
    Contains(result.markdown, <<"x", " ", " ", "\n", "y">>)


\* The item lines of an ordered list among the chunks of the builder
OrderedItemLines == SelectSeq(builder.chunks, LAMBDA chunk : Len(chunk) >= 2 /\ chunk[2] = ".")

\* C25: the item lines emitted for the li children of an ordered list carry
\* the numbers 1, 2, 3, ... in the order of the document: the k-th item line
\* emitted is numbered k.
C25_ItemsNumberedConsecutively ==
  (family = "lists" /\ JustTraversed) =>
    \A k \in 1..Len(OrderedItemLines) : OrderedItemLines[k][1] = NumberAtom(k)


\* getListNestingDepth(list) of every ul and ol among the nodes kids and
\* below them, where kids have listsAbove lists among their ancestors
RECURSIVE ListNestingDepths(_, _)
ListNestingDepths(kids, listsAbove) ==
  UNION {LET k == kids[i]
             isList == k.tagName \in ListTags
             depth == IF isList THEN listsAbove + 1 ELSE listsAbove
         IN (IF isList THEN {depth} ELSE {}) \cup ListNestingDepths(k.childNodes, depth) :
         i \in {j \in 1..Len(kids) : kids[j].nodeType = ELEMENT_NODE}}

\* C26: after the deep-list flattening has run, no ul or ol of the tree has a
\* nesting depth (the lists among its ancestors, itself included) above
\* maxNestingDepth
C26_NoListBeyondMaxNestingDepth ==
  (family = "deeplists" /\ JustOptimized /\ options.flattenDeepNesting) =>
    \A depth \in ListNestingDepths(<<stack[1].node>>, 0) :
      depth <= getOptimizerOptions(options).maxNestingDepth


\* The innermost list of a chain of lists nested through li elements: the
\* list itself when none of its li children holds a list
RECURSIVE InnermostList(_)
InnermostList(list) ==
  LET holders == SelectSeq(WithTags(ElementsOf(list.childNodes), {"li"}),
                           LAMBDA li : WithTags(ElementsOf(li.childNodes), ListTags) # <<>>)
  IN IF holders = <<>> THEN list
     ELSE InnermostList(WithTags(ElementsOf(holders[1].childNodes), ListTags)[1])

\* The lists of the input are nested through li elements and exactly the
\* innermost of them is deeper than maxNestingDepth
OneListTooDeep ==
  /\ family = "deeplists"
  /\ input.root.childNodes # <<>>
  /\ input.root.childNodes[1].childNodes[1].tagName = "li"
  /\ getOptimizerOptions(options).maxNestingDepth + 1 \in ListNestingDepths(<<input.root>>, 0)
  /\ getOptimizerOptions(options).maxNestingDepth + 2 \notin ListNestingDepths(<<input.root>>, 0)

\* C27: the li children promoted out of a flattened list stand after the li
\* that held the list, in the order they had inside the list
C27_PromotedItemsKeepTheirOrder ==
  (OneListTooDeep /\ JustOptimized /\ options.flattenDeepNesting) =>
    Tail(InnermostList(stack[1].node.childNodes[1]).childNodes)
      = InnermostList(input.root.childNodes[1]).childNodes


\* The div, section, ul and ol elements below the root node
ContainersAndLists(rootNode) == querySelectorAll(rootNode, ContainerTags \cup ListTags)

\* C28: with optimizations.flattenDeepNesting false and an optimizationLevel
\* other than minimal the optimizer unwraps no div or section and flattens
\* no list
C28_NothingFlattenedWithoutTheFlag ==
  (family \in {"deeplists", "deepdivs"} /\ JustOptimized /\ ~options.flattenDeepNesting) =>
    Len(ContainersAndLists(stack[1].node)) = Len(ContainersAndLists(input.root))


\* The div and section elements among the ancestors of the node at path,
\* the root element of the walk included
ContainersAbove(element, path) ==
  Cardinality({k \in 0..(Len(path) - 1) :
                 NodeAt(element, SubSeq(path, 1, k)).tagName \in ContainerTags})

\* The element at path gives its place among the child nodes of its parent
\* to its own child nodes: the while loop over firstChild and removeChild
RECURSIVE UnwrappedAt(_, _)
UnwrappedAt(element, path) ==
  IF Len(path) = 1
  THEN [element EXCEPT
          !.childNodes = SubSeq(@, 1, path[1] - 1) \o @[path[1]].childNodes
                         \o SubSeq(@, path[1] + 1, Len(@))]
  ELSE [element EXCEPT !.childNodes[Head(path)] = UnwrappedAt(@, Tail(path))]

\* The containers at which the for loop of flattenDeeplyNestedElements would
\* unwrap, in document order: the loop takes the first
UnwrapCandidates(element, maxNestingDepth) ==
  SelectSeq(querySelectorAllPaths(element, ContainerTags), LAMBDA path :
    /\ getElementNestingDepth(ContainersAbove(element, path)) > maxNestingDepth
    /\ NodeAt(element, SubSeq(path, 1, Len(path) - 1)).tagName \in ContainerTags)

\* No more turns of the while loop than this are followed
MaxLoopTurns == 8

\* The while loop of flattenDeeplyNestedElements, turn by turn: run.modified
\* is the flag the loop tests, run.unwraps counts the containers removed and
\* run.turns the turns taken
RECURSIVE UnwrapLoop(_, _)
UnwrapLoop(run, maxNestingDepth) ==
  IF ~run.modified \/ run.turns = MaxLoopTurns THEN run
  ELSE LET candidates == UnwrapCandidates(run.element, maxNestingDepth) IN
       IF candidates = <<>>
       THEN [run EXCEPT !.modified = FALSE, !.turns = @ + 1]
       ELSE UnwrapLoop([element |-> UnwrappedAt(run.element, candidates[1]),
                        modified |-> TRUE,
                        unwraps |-> run.unwraps + 1,
                        turns |-> run.turns + 1], maxNestingDepth)

\* The loop run on the root of the input
ContainerLoopRun ==
  UnwrapLoop([element |-> input.root, modified |-> TRUE, unwraps |-> 0, turns |-> 0],
             getOptimizerOptions(options).maxNestingDepth)

\* The div and section elements of the tree that have more than
\* maxNestingDepth - 1 div and section elements above them and a div or
\* section as their parent
NestedBeyond(element, maxNestingDepth) ==
  SelectSeq(querySelectorAllPaths(element, ContainerTags), LAMBDA path :
    /\ 1 + ContainersAbove(element, path) > maxNestingDepth
    /\ NodeAt(element, SubSeq(path, 1, Len(path) - 1)).tagName \in ContainerTags)

\* C29: the deep-container flattening ends on every tree: the loop that
\* starts anew after each unwrap unwraps no more containers than the tree
\* has, and what it leaves has no div or section nested beyond
\* maxNestingDepth in a div or section parent
C29_ContainerLoopEndsAtFixedPoint ==
  (family = "deepdivs" /\ JustOptimized) =>
    /\ ~ContainerLoopRun.modified
    /\ ContainerLoopRun.unwraps <= Len(querySelectorAll(input.root, ContainerTags))
    /\ ContainerLoopRun.element = stack[1].node
    /\ NestedBeyond(stack[1].node, getOptimizerOptions(options).maxNestingDepth) = <<>>

\* The loop has unwrapped two containers, the second of them too deep only
\* after the scan has started anew
C29_TwoContainersUnwrapped ==
  family = "deepdivs" /\ JustOptimized /\ ContainerLoopRun.unwraps = 2


\* The texts of the tr elements of the document, in document order
RowTexts == LET rowElements == querySelectorAll(input.root, {"tr"}) IN
            [i \in 1..Len(rowElements) |-> textContent(rowElements[i])]

\* The chunks of the builder that are the text of a row, in the order in
\* which they were added
EmittedRowTexts ==
  SelectSeq(builder.chunks, LAMBDA chunk : \E i \in 1..Len(RowTexts) : RowTexts[i] = chunk)

\* C30: every tr of the table, in the thead, in a tbody, in the tfoot or a
\* child of the table, gives exactly one row of the grid, in document order
C30_EveryRowExtractedOnce ==
  (family = "rows" /\ JustTraversed) => EmittedRowTexts = RowTexts

====
